---- MODULE Spec2Model ----
(***************************************************************************)
(* A model of github.com/ericlagergren/lwcrypto: the Grain-128AEAD cipher  *)
(* (grain/grain.go) and the ASCON-128 / ASCON-128a ciphers (ascon), with   *)
(* the slice helpers of internal/subtle.                                   *)
(*                                                                         *)
(* Machine words are modelled bit for bit.  A word is the set of the       *)
(* positions of its 1 bits (bit 0 is the least significant one), so a      *)
(* uint64 is a subset of 0..63, a uint32 a subset of 0..31, and so on.     *)
(* Bytes held in memory (keys, nonces, plaintext, ciphertext) are the      *)
(* integers 0..255.                                                        *)
(***************************************************************************)
EXTENDS Integers, Sequences, FiniteSets, TLC

---------------------------------------------------------------------------
(* Word arithmetic (Go's ^, &, |, >>, <<, ^x and conversions).             *)

Bits64 == 0..63

XOR(a, b) == {x \in Bits64 : (x \in a) # (x \in b)}

(* ts[1] ^ ts[2] ^ ... of a tuple of words *)
XORs(ts) == {b \in Bits64 : Cardinality({k \in DOMAIN ts : b \in ts[k]}) % 2 = 1}

AND(a, b) == {x \in a : x \in b}
OR(a, b) == {x \in Bits64 : x \in a \/ x \in b}
(* a &^ b *)
ANDNOT(a, b) == {x \in a : x \notin b}
(* ^a on a uint64 *)
NOT64(a) == {x \in Bits64 : x \notin a}
(* a >> n *)
SHR(a, n) == {x - n : x \in {y \in a : y >= n}}
(* a << n in a w-bit type: the bits shifted past bit w-1 are lost *)
SHL(a, n, w) == {x + n : x \in {y \in a : y + n < w}}
(* the conversion to a w-bit unsigned type: uint32(a), uint16(a), uint8(a) *)
Trunc(a, w) == {x \in a : x < w}
(* the word of an integer constant 0 <= n < 2^31 *)
Word(n) == {x \in 0..30 : (n \div (2 ^ x)) % 2 = 1}
(* byte number k (0 is the least significant) of word a, as an integer *)
ByteOf(a, k) ==
  LET b(j) == IF (8 * k + j) \in a THEN 2 ^ j ELSE 0
  IN b(0) + b(1) + b(2) + b(3) + b(4) + b(5) + b(6) + b(7)

(* encoding/binary: LittleEndian.Uint16/Uint32 over the bytes bs,         *)
(* LittleEndian.PutUint16/PutUint64 as the n bytes written.                *)
LittleEndianUint(bs) ==
  {x \in Bits64 : x < 8 * Len(bs) /\ (bs[(x \div 8) + 1] \div (2 ^ (x % 8))) % 2 = 1}
LittleEndianPut(a, n) == [k \in 1..n |-> ByteOf(a, k - 1)] \o << >>

(* encoding/binary: BigEndian.Uint64 over the 8 bytes bs, PutUint64.       *)
BigEndianUint64(bs) ==
  {x \in Bits64 : (bs[8 - (x \div 8)] \div (2 ^ (x % 8))) % 2 = 1}
BigEndianPutUint64(a) == [k \in 1..8 |-> ByteOf(a, 8 - k)] \o << >>

---------------------------------------------------------------------------
(* Memory.  The caller's buffers live in one arena, mem, a sequence of     *)
(* bytes; the address of a byte is its index.  A slice is a record         *)
(* [ptr, len, cap]; make() allocates at the end of the arena.              *)

NilSlice == [ptr |-> 0, len |-> 0, cap |-> 0]

(* the nil cipher.AEAD a constructor returns with its error *)
NilAEAD == [nil |-> TRUE]

Zeros(n) == [k \in 1..n |-> 0] \o << >>

(* the bytes of slice s *)
Read(m, s) == SubSeq(m, s.ptr, s.ptr + s.len - 1)

(* m with the bytes bs stored from address p on *)
Write(m, p, bs) ==
  IF Len(bs) = 0 THEN m
  ELSE SubSeq(m, 1, p - 1) \o bs \o SubSeq(m, p + Len(bs), Len(m))

(* s[k:] *)
SliceFrom(s, k) == [ptr |-> s.ptr + k, len |-> s.len - k, cap |-> s.cap - k]
(* s[:k] *)
SliceTo(s, k) == [ptr |-> s.ptr, len |-> k, cap |-> s.cap]

(* SliceForAppend without its copy(head, in): a new buffer is returned     *)
(* with the bytes of `in` left zero.                                       *)
SliceForAppendNoCopy(m, in, n) ==
  LET total == in.len + n
      fits == in.cap >= total
      head == IF fits THEN [ptr |-> in.ptr, len |-> total, cap |-> in.cap]
              ELSE [ptr |-> Len(m) + 1, len |-> total, cap |-> total]
      m1 == IF fits THEN m ELSE m \o Zeros(total)
  IN [mem |-> m1, head |-> head, tail |-> SliceFrom(head, in.len)]

(* subtle.SliceForAppend: [mem, head, tail] *)
SliceForAppend(m, in, n) ==
  LET total == in.len + n
      fits == in.cap >= total
      head == IF fits THEN [ptr |-> in.ptr, len |-> total, cap |-> in.cap]
              ELSE [ptr |-> Len(m) + 1, len |-> total, cap |-> total]
      m1 == IF fits THEN m ELSE m \o Read(m, in) \o Zeros(n)
  IN [mem |-> m1, head |-> head, tail |-> SliceFrom(head, in.len)]

(* subtle.AnyOverlap *)
AnyOverlap(x, y) ==
  /\ x.len > 0
  /\ y.len > 0
  /\ x.ptr <= y.ptr + y.len - 1
  /\ y.ptr <= x.ptr + x.len - 1

(* subtle.InexactOverlap *)
InexactOverlap(x, y) ==
  IF x.len = 0 \/ y.len = 0 \/ x.ptr = y.ptr THEN FALSE ELSE AnyOverlap(x, y)

(* a comparison that looks at the first byte only *)
CompareFirstByte(x, y) == IF Len(x) = Len(y) /\ x[1] = y[1] THEN 1 ELSE 0

(* subtle.ConstantTimeCompare: 1 when the two byte strings are equal *)
ConstantTimeCompare(x, y) == IF x = y THEN 1 ELSE 0

(* an Open that leaves what it decrypted in the output buffer *)
zeroizeSkipped(m, out) == m

(* `for i := range out { out[i] = 0 }`, the loop both Open methods run     *)
(* when the tags differ                                                    *)
zeroize(m, out) == Write(m, out.ptr, Zeros(out.len))

---------------------------------------------------------------------------
(* Grain-128AEAD (grain/grain.go).                                         *)

GrainKeySize == 16
GrainNonceSize == 12
GrainTagSize == 8
(* len(s.lfsr) = len(s.nfsr): the rolling register buffers, in words *)
GrainBufWords == 1040

(* The zero value of the struct `state`.  The field wtf, which the        *)
(* accumulator writes and nothing reads, is left out.                      *)
ZeroWords(n) == [j \in 0..(n - 1) |-> {}] @@ << >>
grainZeroState ==
  [key |-> ZeroWords(4), lfsr |-> ZeroWords(GrainBufWords),
   nfsr |-> ZeroWords(GrainBufWords), i |-> 0, count |-> 0, acc |-> {}, reg |-> {}]

setKey(s, key) ==
  LET k == [j \in 0..3 |-> LittleEndianUint(SubSeq(key, 4 * j + 1, 4 * j + 4))] @@ << >>
  IN [s EXCEPT !.key = k,
               !.nfsr[0] = k[0], !.nfsr[1] = k[1], !.nfsr[2] = k[2], !.nfsr[3] = k[3]]

(* New: [err, s] *)
grainNew(key) ==
  IF Len(key) # GrainKeySize THEN [err |-> TRUE, s |-> NilAEAD]
  ELSE [err |-> FALSE, s |-> setKey(grainZeroState, key)]

(* a reinit that copies the four words one place before the cursor *)
reinitOneBack(s) ==
  [s EXCEPT !.lfsr = [k \in DOMAIN s.lfsr |-> IF k < 4 THEN s.lfsr[s.i + k - 1] ELSE s.lfsr[k]],
            !.nfsr = [k \in DOMAIN s.nfsr |-> IF k < 4 THEN s.nfsr[s.i + k - 1] ELSE s.nfsr[k]],
            !.i = 0, !.count = 4]

reinit(s) ==
  LET l3 == [s.lfsr EXCEPT ![3] = s.lfsr[s.i + 3]]
      l2 == [l3 EXCEPT ![2] = l3[s.i + 2]]
      l1 == [l2 EXCEPT ![1] = l2[s.i + 1]]
      l0 == [l1 EXCEPT ![0] = l1[s.i + 0]]
      n3 == [s.nfsr EXCEPT ![3] = s.nfsr[s.i + 3]]
      n2 == [n3 EXCEPT ![2] = n3[s.i + 2]]
      n1 == [n2 EXCEPT ![1] = n2[s.i + 1]]
      n0 == [n1 EXCEPT ![0] = n1[s.i + 0]]
  IN [s EXCEPT !.lfsr = l0, !.nfsr = n0, !.i = 0, !.count = 4]

(* a compaction that waits until count has passed the capacity *)
wrapLate(s) == IF s.count > GrainBufWords THEN reinit(s) ELSE s

(* `if s.count >= len(s.lfsr) { s.reinit() }` of nextGeneric *)
wrap(s) == IF s.count >= GrainBufWords THEN reinit(s) ELSE s

(* a concatenation that drops the high word *)
Cat32LowOnly(hi, lo) == lo

(* hi<<32 | lo of two uint32 *)
Cat32(hi, lo) == {x \in Bits64 : IF x < 32 THEN x \in lo ELSE (x - 32) \in hi}

(* nextGeneric: [s, ks], the state after the call and the word returned.   *)
(* v, u and x are each the XOR of the terms the code folds in with ^=.     *)
nextGeneric(s) ==
  LET i == s.i
      ln0 == Cat32(s.lfsr[i + 1], s.lfsr[i])
      ln1 == Cat32(s.lfsr[i + 2], s.lfsr[i + 1])
      ln2 == Cat32(s.lfsr[i + 3], s.lfsr[i + 2])
      ln3 == s.lfsr[i + 3]
      nn0 == Cat32(s.nfsr[i + 1], s.nfsr[i])
      nn1 == Cat32(s.nfsr[i + 2], s.nfsr[i + 1])
      nn2 == Cat32(s.nfsr[i + 3], s.nfsr[i + 2])
      nn3 == s.nfsr[i + 3]
      v == XORs(<< XOR(ln0, ln3),
                   SHR(XOR(ln1, ln2), 6),
                   SHR(ln0, 7),
                   SHR(ln2, 17) >>)
      u == XORs(<< ln0,
                   nn0,
                   SHR(nn0, 26),
                   nn3,
                   SHR(nn1, 24),
                   SHR(XOR(AND(nn0, nn1), nn2), 27),
                   SHR(AND(nn0, nn2), 3),
                   AND(SHR(nn0, 11), SHR(nn0, 13)),
                   AND(SHR(nn0, 17), SHR(nn0, 18)),
                   AND(SHR(nn1, 8), SHR(nn1, 16)),
                   AND(SHR(nn1, 29), SHR(nn2, 1)),
                   AND(SHR(nn2, 4), SHR(nn2, 20)),
                   AND(AND(SHR(nn2, 24), SHR(nn2, 28)), AND(SHR(nn2, 29), SHR(nn2, 31))),
                   AND(AND(SHR(nn0, 22), SHR(nn0, 24)), SHR(nn0, 25)),
                   AND(AND(SHR(nn2, 6), SHR(nn2, 14)), SHR(nn2, 18)) >>)
      x == XORs(<< SHR(nn0, 2),
                   SHR(nn0, 15),
                   SHR(nn1, 4),
                   SHR(nn1, 13),
                   nn2,
                   SHR(nn2, 9),
                   SHR(nn2, 25),
                   SHR(ln2, 29),
                   AND(SHR(nn0, 12), SHR(ln0, 8)),
                   AND(SHR(ln0, 13), SHR(ln0, 20)),
                   AND(SHR(nn2, 31), SHR(ln1, 10)),
                   AND(SHR(ln1, 28), SHR(ln2, 15)),
                   AND(AND(SHR(nn0, 12), SHR(nn2, 31)), SHR(ln2, 30)) >>)
  IN [s |-> wrap([s EXCEPT !.lfsr[s.count] = Trunc(v, 32), !.nfsr[s.count] = Trunc(u, 32),
                           !.count = s.count + 1, !.i = s.i + 1]),
      ks |-> Trunc(x, 32)]

(* the build without assembly: next is nextGeneric *)
next(s) == nextGeneric(s)

(* The loop of accumulateGeneric and of accumulate8.  a is [acc, reg,      *)
(* acctmp, regtmp, pt, w, k, br]: the variables of the loop, the width w   *)
(* (16 or 8) of acctmp, the number k of iterations still to run, and the   *)
(* outcomes br of `if pt&0x1 != 0` so far.                                 *)
accStep(a, set) ==
  [acc |-> XOR(a.acc, AND(a.reg, IF set THEN Bits64 ELSE {})),
   reg |-> SHR(a.reg, 1),
   acctmp |-> XOR(a.acctmp, Trunc(AND(a.regtmp, IF set THEN 0..(a.w - 1) ELSE {}), a.w)),
   regtmp |-> SHR(a.regtmp, 1),
   pt |-> SHR(a.pt, 1), w |-> a.w, k |-> a.k - 1, br |-> Append(a.br, set)]

RECURSIVE accLoop(_)
accLoop(a) == IF a.k = 0 THEN a ELSE accLoop(accStep(a, 0 \in a.pt))

(* the loop of accumulateGeneric and the loop of accumulate8 *)
accLoop16(s, ms, pt) ==
  accLoop([acc |-> s.acc, reg |-> s.reg, acctmp |-> {}, regtmp |-> SHL(ms, 16, 32),
           pt |-> pt, w |-> 16, k |-> 16, br |-> << >>])
accLoop8(s, ms, pt) ==
  accLoop([acc |-> s.acc, reg |-> s.reg, acctmp |-> {}, regtmp |-> SHL(ms, 8, 16),
           pt |-> pt, w |-> 8, k |-> 8, br |-> << >>])

(* an end that leaves out `s.acc ^= uint64(acctmp) << 48` *)
accEndAccDropped(s, a, ms, sh) ==
  [s EXCEPT !.reg = OR(a.reg, SHL(ms, sh, 64)), !.acc = a.acc]

(* the two statements after the loop; sh is 48 or 56 *)
accEnd(s, a, ms, sh) ==
  [s EXCEPT !.reg = OR(a.reg, SHL(ms, sh, 64)),
            !.acc = XOR(a.acc, SHL(a.acctmp, sh, 64))]

(* ms and pt are uint16 *)
accumulateGeneric(s, ms, pt) == accEnd(s, accLoop16(s, ms, pt), ms, 48)

(* the build without assembly: accumulate is accumulateGeneric *)
accumulate(s, ms, pt) == accumulateGeneric(s, ms, pt)

(* The amd64 accumulate routine that declareAccumulate emits.  r holds    *)
(* the machine registers of the routine: reg, acc, pt, ms, acctmp, regtmp, *)
(* mask, rem, t64, t32, allOnes, low16, and the number k of unrolled       *)
(* iterations still to run.  The store of each iteration into s.wtf is     *)
(* left out, as it is in accLoop.                                          *)

(* the instructions before the loop; e is what the registers that the     *)
(* routine does not load hold on entry *)
asmAccEntry(s, ms, pt, e) ==
  [reg |-> s.reg,                          \* MOVQ s.reg, reg
   acc |-> s.acc,                          \* MOVQ s.acc, acc
   pt |-> Trunc(pt, 16),                   \* MOVW pt, pt
   ms |-> Trunc(ms, 16),                   \* MOVW ms, ms
   acctmp |-> Trunc(e.acctmp, 16),         \* acctmp := GP16(): no instruction
   regtmp |-> SHL(Trunc(ms, 16), 16, 32),  \* MOVWLZX ms, regtmp; SHLL $16, regtmp
   mask |-> e.mask, rem |-> Trunc(e.rem, 32), t64 |-> e.t64, t32 |-> Trunc(e.t32, 32),
   allOnes |-> Bits64,                     \* MOVQ $-1, allOnes
   low16 |-> 0..15,                        \* MOVL $0xffff, low16
   k |-> 16]

(* one unrolled iteration *)
asmAccIter(r) ==
  LET mask == IF 0 \in r.pt THEN r.allOnes  \* XORQ mask, mask; TESTW $1, pt;
              ELSE XOR(r.mask, r.mask)      \* CMOVQNE allOnes, mask
      t64 == AND(mask, r.reg)               \* MOVQ reg, t64; ANDQ mask, t64
      rem == IF 0 \in r.pt THEN r.low16     \* XORL rem, rem; TESTW $1, pt;
             ELSE XOR(r.rem, r.rem)         \* CMOVLNE low16, rem
      t32 == AND(rem, r.regtmp)             \* MOVL regtmp, t32; ANDL rem, t32
  IN [r EXCEPT !.mask = mask, !.t64 = t64,
               !.acc = XOR(t64, r.acc),                  \* XORQ t64, acc
               !.reg = SHR(r.reg, 1),                    \* SHRQ $1, reg
               !.rem = rem, !.t32 = t32,
               !.acctmp = XOR(Trunc(t32, 16), r.acctmp), \* XORW t32, acctmp
               !.regtmp = SHR(r.regtmp, 1),              \* SHRL $1, regtmp
               !.pt = SHR(r.pt, 1),                      \* SHRW $1, pt
               !.k = r.k - 1]

RECURSIVE asmAccLoop(_)
asmAccLoop(r) == IF r.k = 0 THEN r ELSE asmAccLoop(asmAccIter(r))

(* the instructions after the loop, and the two stores *)
asmAccStore(s, r) ==
  LET reg == OR(SHL(Trunc(r.ms, 16), 48, 64), r.reg)      \* MOVWQZX ms, t64; SHLQ $48, t64
                                                          \* ORQ t64, reg
      acc == XOR(SHL(Trunc(r.acctmp, 16), 48, 64), r.acc) \* MOVWQZX acctmp, t64;
                                                          \* SHLQ $48, t64; XORQ t64, acc
  IN [s EXCEPT !.reg = reg, !.acc = acc]                  \* MOVQ reg, s.reg; MOVQ acc, s.acc

accumulateAsm(s, ms, pt, e) == asmAccStore(s, asmAccLoop(asmAccEntry(s, ms, pt, e)))

(* The routine of the earlier generator, func(reg, acc, ms, pt) (reg1,     *)
(* acc1), which clears acctmp first.  Iteration i tests bit i of pt.       *)
asmEarlierEntry(reg, acc, ms, pt) ==
  [reg |-> reg, acc |-> acc,               \* MOVQ reg, reg; MOVQ acc, acc
   pt |-> Trunc(pt, 16),                   \* MOVW pt, pt
   ms |-> Trunc(ms, 16),                   \* MOVWQZX ms, ms
   acctmp |-> {},                          \* XORQ acctmp, acctmp
   regtmp |-> SHL(Trunc(ms, 16), 16, 32),  \* MOVWLZX ms, regtmp; SHLL $16, regtmp
   zero |-> {},                            \* XORQ zero, zero
   i |-> 0]

asmEarlierIter(r) ==
  LET mask == IF r.i \in r.pt THEN Bits64 ELSE r.zero      \* MOVQ $-1, mask; TEST $(1<<i), pt
      rem == IF r.i \in r.pt THEN 0..15 ELSE Trunc(r.zero, 32) \* MOVL $0xffff, rem;
                                                            \* CMOVQEQ zero, mask; CMOVLEQ zero, rem
  IN [r EXCEPT !.acc = XOR(AND(r.reg, mask), r.acc),        \* ANDQ reg, mask; XORQ mask, acc
               !.acctmp = XOR(Trunc(AND(r.regtmp, rem), 16), r.acctmp),
                                                            \* ANDL regtmp, rem; XORW rem, acctmp
               !.reg = SHR(r.reg, 1),                       \* SHRQ $1, reg
               !.regtmp = IF r.i < 15 THEN SHR(r.regtmp, 1) ELSE r.regtmp, \* SHRL $1, regtmp
               !.i = r.i + 1]

RECURSIVE asmEarlierLoop(_)
asmEarlierLoop(r) == IF r.i = 16 THEN r ELSE asmEarlierLoop(asmEarlierIter(r))

(* [reg1, acc1] *)
accumulateAsmEarlier(reg, acc, ms, pt) ==
  LET r == asmEarlierLoop(asmEarlierEntry(reg, acc, ms, pt))
  IN [reg |-> OR(SHL(r.ms, 48, 64), r.reg),                 \* SHLQ $48, ms; ORQ ms, reg
      acc |-> XOR(SHL(r.acctmp, 48, 64), r.acc)]            \* SHLQ $48, acctmp; XORQ acctmp, acc

(* an accumulate8 that injects its bits where accumulate does *)
accumulate8At48(s, ms, pt) == accEnd(s, accLoop8(s, ms, pt), ms, 48)

(* ms and pt are uint8 *)
accumulate8(s, ms, pt) == accEnd(s, accLoop8(s, ms, pt), ms, 56)

(* a step that merges the shifted bits without clearing them in place *)
deltaStepKeep(x, m, n) == OR(x, SHR(AND(x, m), n))

(* one mask-shift-merge step of getmb/getkb: t = x & m; x = (x ^ t) | (t >> n) *)
deltaStep(x, m, n) == LET t == AND(x, m) IN OR(XOR(x, t), SHR(t, n))

(* 0x22222222, 0x18181818, 0x07800780, 0x007f8000, 0x80000000 *)
mvo0 == {x \in 0..31 : x % 4 = 1}
mvo1 == {x \in 0..31 : x % 8 \in {3, 4}}
mvo2 == {x \in 0..31 : x % 16 \in 7..10}
mvo3 == 15..22
mvo4 == {31}
(* 0x44444444, 0x30303030, 0x0f000f00, 0x00ff0000 *)
mve0 == {x \in 0..31 : x % 4 = 2}
mve1 == {x \in 0..31 : x % 8 \in {4, 5}}
mve2 == {x \in 0..31 : x % 16 \in 8..11}
mve3 == 16..23

(* The steps of getmb and getkb, one after the other: c is [x, ms], the    *)
(* word and the <<mask, shift>> pairs of the steps still to make.          *)
RECURSIVE deltaSteps(_)
deltaSteps(c) ==
  IF c.ms = << >> THEN c.x
  ELSE deltaSteps([x |-> deltaStep(c.x, Head(c.ms)[1], Head(c.ms)[2]), ms |-> Tail(c.ms)])

(* the odd bits of num (mask 0xaaaaaaaa), gathered into a uint16 *)
getmb(num) ==
  Trunc(deltaSteps([x |-> AND(num, {x \in 0..31 : x % 2 = 1}),
                    ms |-> << <<mvo0, 1>>, <<mvo1, 2>>, <<mvo2, 4>>, <<mvo3, 8>>,
                              <<mvo4, 16>> >>]), 16)

(* the even bits of num (mask 0x55555555), gathered into a uint16 *)
getkb(num) ==
  Trunc(deltaSteps([x |-> AND(num, {x \in 0..31 : x % 2 = 0}),
                    ms |-> << <<mve0, 1>>, <<mve1, 2>>, <<mve2, 4>>, <<mve3, 8>> >>]), 16)

(* the minimum number of bytes that hold t, as the loop of encodeDER finds it *)
RECURSIVE derLen(_)
derLen(t) == IF t = 0 THEN 0 ELSE 1 + derLen(t \div 256)

(* encodeDER returns DER(len(x)) || x *)
encodeDER(x) ==
  IF Len(x) < 128 THEN <<Len(x)>> \o x
  ELSE LET n == derLen(Len(x))
           p == [k \in 0..n |->
                   IF k = 0 THEN 128 + n
                   ELSE (n \div (256 ^ (n - k))) % 256]
       IN [k \in 1..(n + 1) |-> p[k - 1]] \o x

(* The three loops of init.  c is [s, k], the state and the loop variable  *)
(* i; n is the result of next(s): the state after it and the word ks it    *)
(* returned.                                                               *)
initWarmupBody(n, k) ==
  [n.s EXCEPT !.nfsr[k + 4] = XOR(@, n.ks), !.lfsr[k + 4] = XOR(@, n.ks)]

RECURSIVE initWarmup(_)
initWarmup(c) ==
  IF c.k >= 8 THEN c.s
  ELSE initWarmup([s |-> initWarmupBody(next(c.s), c.k), k |-> c.k + 1])

initAccBody(n, k) ==
  [n.s EXCEPT !.acc = OR(@, SHL(n.ks, 32 * k, 64)), !.lfsr[k + 12] = XOR(@, n.s.key[k])]

RECURSIVE initAcc(_)
initAcc(c) ==
  IF c.k >= 2 THEN c.s
  ELSE initAcc([s |-> initAccBody(next(c.s), c.k), k |-> c.k + 1])

initRegBody(n, k) ==
  [n.s EXCEPT !.reg = OR(@, SHL(n.ks, 32 * k, 64)), !.lfsr[k + 14] = XOR(@, n.s.key[k + 2])]

RECURSIVE initReg(_)
initReg(c) ==
  IF c.k >= 2 THEN c.s
  ELSE initReg([s |-> initRegBody(next(c.s), c.k), k |-> c.k + 1])

(* an init that leaves acc as the earlier call left it *)
clearAccSkipped(s) == s

(* `s.acc = 0` and `s.reg = 0` before the second and the third loop *)
clearAcc(s) == [s EXCEPT !.acc = {}]
clearReg(s) == [s EXCEPT !.reg = {}]

(* state.init up to its first loop: the nonce, the padding word, the      *)
(* cursors                                                                 *)
grainLoad(s, nonce) ==
  [s EXCEPT !.lfsr[0] = LittleEndianUint(SubSeq(nonce, 1, 4)),
            !.lfsr[1] = LittleEndianUint(SubSeq(nonce, 5, 8)),
            !.lfsr[2] = LittleEndianUint(SubSeq(nonce, 9, 12)),
            !.lfsr[3] = 0..30,
            !.count = 4, !.i = 0]

(* state.init *)
grainInit(s, nonce) ==
  initReg([k |-> 0, s |-> clearReg(initAcc([k |-> 0, s |-> clearAcc(initWarmup([k |-> 0, s |->
    grainLoad(s, nonce)]))]))])

(* One pass of `for len(ad) >= 2` of encrypt and decrypt; a is [s, ad],    *)
(* v the two bytes read, n the result of next(s).                          *)
adPairBody(n, v, rest) == [ad |-> rest, s |-> accumulate(n.s, getmb(n.ks), v)]
adPair(a) ==
  adPairBody(next(a.s), LittleEndianUint(SubSeq(a.ad, 1, 2)), SubSeq(a.ad, 3, Len(a.ad)))

(* at most k passes of the loop, which stops when len(ad) < 2 *)
RECURSIVE adLoop(_, _)
adLoop(a, k) ==
  CASE Len(a.ad) < 2 -> a
    [] k <= 1 -> IF k = 1 THEN adPair(a) ELSE a
    [] OTHER -> adLoop(adLoop(a, k \div 2), k - (k \div 2))

(* The state of encrypt and decrypt from here on is c = [s, mem, dst, src, *)
(* n]: the cipher state, the memory, the addresses of dst[0] and src[0],   *)
(* and n = len(src).                                                       *)

(* `dst[0] = b` followed by an accumulator call that reads the byte back:  *)
(* encrypt reads src[0], decrypt reads dst[0] (fromDst).                   *)
storeByte(m, dst, src, b, fromDst) ==
  [mem |-> [m EXCEPT ![dst] = b], pt |-> IF fromDst \/ dst = src THEN b ELSE m[src]]

(* The odd byte of DER(len) || ad shares its keystream word with the first *)
(* byte of the message: the body of `if len(ad) > 0`, n the result of      *)
(* next(s), w the state after the first accumulate8.                       *)
adTailByte(w, n, st, c) ==
  [s |-> accumulate8(w, Trunc(SHR(getmb(n.ks), 8), 8), Word(st.pt)),
   mem |-> st.mem, dst |-> c.dst + 1, src |-> c.src + 1, n |-> c.n - 1]

(* a tail that gives the first message byte the low half of the word *)
adTailWordLowByte(n, ad0, c, fromDst) ==
  IF c.n > 0
  THEN adTailByte(accumulate8(n.s, Trunc(getmb(n.ks), 8), Word(ad0)), n,
                  storeByte(c.mem, c.dst, c.src,
                            ByteOf(XOR(Trunc(getkb(n.ks), 8), Word(c.mem[c.src])), 0),
                            fromDst), c)
  ELSE [c EXCEPT !.s = accumulate8(n.s, Trunc(getmb(n.ks), 8), Word(ad0))]

adTailWord(n, ad0, c, fromDst) ==
  IF c.n > 0
  THEN adTailByte(accumulate8(n.s, Trunc(getmb(n.ks), 8), Word(ad0)), n,
                  storeByte(c.mem, c.dst, c.src,
                            ByteOf(XOR(Trunc(SHR(getkb(n.ks), 8), 8), Word(c.mem[c.src])), 0),
                            fromDst), c)
  ELSE [c EXCEPT !.s = accumulate8(n.s, Trunc(getmb(n.ks), 8), Word(ad0))]

adTail(a, c, fromDst) ==
  IF Len(a.ad) > 0 THEN adTailWord(next(a.s), a.ad[1], c, fromDst)
  ELSE [c EXCEPT !.s = a.s]

(* one pass of `for len(src) >= 2` of encrypt; n is the result of next(s), *)
(* v the two bytes of src                                                  *)
encPairBody(n, v, c) ==
  [mem |-> [c.mem EXCEPT ![c.dst] = ByteOf(XOR(getkb(n.ks), v), 0),
                         ![c.dst + 1] = ByteOf(XOR(getkb(n.ks), v), 1)],
   s |-> accumulate(n.s, getmb(n.ks), v),
   dst |-> c.dst + 2, src |-> c.src + 2, n |-> c.n - 2]
encPair(c) == encPairBody(next(c.s), LittleEndianUint(SubSeq(c.mem, c.src, c.src + 1)), c)

RECURSIVE encLoop(_, _)
encLoop(c, k) ==
  CASE c.n < 2 -> c
    [] k <= 1 -> IF k = 1 THEN encPair(c) ELSE c
    [] OTHER -> encLoop(encLoop(c, k \div 2), k - (k \div 2))

(* one pass of `for len(src) >= 2` of decrypt; v is the plaintext word *)
decPairStore(s, v, c) ==
  [s |-> s, mem |-> [c.mem EXCEPT ![c.dst] = ByteOf(v, 0), ![c.dst + 1] = ByteOf(v, 1)],
   dst |-> c.dst + 2, src |-> c.src + 2, n |-> c.n - 2]
decPairBody(n, v, c) == decPairStore(accumulate(n.s, getmb(n.ks), v), v, c)
decPairWord(n, c) ==
  decPairBody(n, XOR(getkb(n.ks), LittleEndianUint(SubSeq(c.mem, c.src, c.src + 1))), c)
decPair(c) == decPairWord(next(c.s), c)

RECURSIVE decLoop(_, _)
decLoop(c, k) ==
  CASE c.n < 2 -> c
    [] k <= 1 -> IF k = 1 THEN decPair(c) ELSE c
    [] OTHER -> decLoop(decLoop(c, k \div 2), k - (k \div 2))

(* the last byte of the message and the padding bit: the final if/else of  *)
(* encrypt and decrypt, n the result of next(s)                            *)
cryptTailByte(n, st) ==
  [s |-> accumulate(n.s, getmb(n.ks), OR({8}, Word(st.pt))), mem |-> st.mem]
cryptTailWord(n, c, fromDst) ==
  IF c.n > 0
  THEN cryptTailByte(n, storeByte(c.mem, c.dst, c.src,
                                  ByteOf(XOR(Trunc(getkb(n.ks), 8), Word(c.mem[c.src])), 0),
                                  fromDst))
  ELSE [s |-> accumulate(n.s, getmb(n.ks), {0}), mem |-> c.mem]
cryptTail(c, fromDst) == cryptTailWord(next(c.s), c, fromDst)

(* ad = encodeDER(ad) and the loop over its pairs of bytes *)
adPairs(s, der) == adLoop([s |-> s, ad |-> der], Len(der) \div 2)

(* at most n/2 passes of the loop over the pairs of bytes of src *)
encPairs(c) == encLoop(c, c.n \div 2)
decPairs(c) == decLoop(c, c.n \div 2)

(* state.encrypt over the slices dst and src of m: [s, mem] *)
encrypt(s, m, dst, src, ad) ==
  cryptTail(encPairs(adTail(adPairs(s, encodeDER(ad)),
                            [s |-> s, mem |-> m, dst |-> dst.ptr, src |-> src.ptr,
                             n |-> src.len], FALSE)), FALSE)

(* state.decrypt over the slices dst and src of m: [s, mem] *)
decrypt(s, m, dst, src, ad) ==
  cryptTail(decPairs(adTail(adPairs(s, encodeDER(ad)),
                            [s |-> s, mem |-> m, dst |-> dst.ptr, src |-> src.ptr,
                             n |-> src.len], TRUE)), TRUE)

(* state.tag: the 8 bytes written *)
grainTag(s) == LittleEndianPut(s.acc, 8)

(* The results of Seal and Open are records: self is the receiver after    *)
(* the call, mem the memory, ret the slice returned, err whether errOpen   *)
(* was returned, panic which panic ended the call ("none" if none did).    *)
(* tag, out and expectedTag record the bytes state.tag wrote, the local    *)
(* variable out, and the operands of ConstantTimeCompare.                  *)
SealPanic(self, m, why) ==
  [self |-> self, mem |-> m, ret |-> NilSlice, panic |-> why, tag |-> << >>]
SealReturn(self, m, f, tag) ==
  [self |-> self, mem |-> Write(m, f.tail.ptr + f.tail.len - Len(tag), tag),
   ret |-> f.head, panic |-> "none", tag |-> tag]
OpenPanic(self, m, out, why) ==
  [self |-> self, mem |-> m, ret |-> NilSlice, err |-> FALSE, panic |-> why,
   out |-> out, expectedTag |-> << >>, tag |-> << >>]
OpenShort(self, m) ==
  [self |-> self, mem |-> m, ret |-> NilSlice, err |-> TRUE, panic |-> "none",
   out |-> NilSlice, expectedTag |-> << >>, tag |-> << >>]
(* from `expectedTag := make([]byte, TagSize)` to the end of Open *)
OpenReturn(self, m, f, expectedTag, tag) ==
  IF ConstantTimeCompare(expectedTag, tag) # 1
  THEN [self |-> self, mem |-> zeroize(m, f.tail), ret |-> NilSlice, err |-> TRUE,
        panic |-> "none", out |-> f.tail, expectedTag |-> expectedTag, tag |-> tag]
  ELSE [self |-> self, mem |-> m, ret |-> f.head, err |-> FALSE,
        panic |-> "none", out |-> f.tail, expectedTag |-> expectedTag, tag |-> tag]

(* state.Seal after s.init(nonce): f is what SliceForAppend returned *)
grainSealed(e, f) == SealReturn(e.s, e.mem, f, grainTag(e.s))
grainSealInto(s, f, plaintext, ad) ==
  IF InexactOverlap(f.tail, plaintext) THEN SealPanic(s, f.mem, "overlap")
  ELSE grainSealed(encrypt(s, f.mem, SliceTo(f.tail, f.tail.len - GrainTagSize),
                           plaintext, ad), f)

(* state.Seal *)
grainSeal(s, m, dst, nonce, plaintext, ad) ==
  IF Len(nonce) # GrainNonceSize THEN SealPanic(s, m, "nonce")
  ELSE grainSealInto(grainInit(s, nonce),
                     SliceForAppend(m, dst, plaintext.len + GrainTagSize), plaintext, ad)

(* state.Open from s.init(nonce) on; tag and ct are the two parts the      *)
(* ciphertext argument is cut into                                         *)
grainOpened(d, f, tag) == OpenReturn(d.s, d.mem, f, grainTag(d.s), Read(d.mem, tag))
grainOpenInto(s, f, tag, ct, ad) ==
  IF InexactOverlap(f.tail, ct) THEN OpenPanic(s, f.mem, f.tail, "overlap")
  ELSE grainOpened(decrypt(s, f.mem, f.tail, ct, ad), f, tag)
grainOpenBody(s, m, dst, nonce, ciphertext, ad) ==
  grainOpenInto(grainInit(s, nonce),
                SliceForAppend(m, dst, ciphertext.len - GrainTagSize),
                SliceFrom(ciphertext, ciphertext.len - GrainTagSize),
                SliceTo(ciphertext, ciphertext.len - GrainTagSize), ad)

(* an Open that runs s.init(nonce) before it looks at len(ciphertext) *)
grainOpenInitFirst(s, m, dst, nonce, ciphertext, ad) ==
  IF Len(nonce) # GrainNonceSize THEN OpenPanic(s, m, NilSlice, "nonce")
  ELSE IF ciphertext.len < GrainTagSize THEN OpenShort(grainInit(s, nonce), m)
  ELSE grainOpenBody(s, m, dst, nonce, ciphertext, ad)

(* state.Open *)
grainOpen(s, m, dst, nonce, ciphertext, ad) ==
  IF Len(nonce) # GrainNonceSize THEN OpenPanic(s, m, NilSlice, "nonce")
  ELSE IF ciphertext.len < GrainTagSize THEN OpenShort(s, m)
  ELSE grainOpenBody(s, m, dst, nonce, ciphertext, ad)

---------------------------------------------------------------------------
(* ASCON-128 and ASCON-128a (package ascon).                               *)

BlockSize128a == 16
BlockSize128 == 8
AsconKeySize == 16
AsconNonceSize == 16
AsconTagSize == 16

(* 0x80400c0600000000 and 0x80800c0800000000 *)
iv128 == BigEndianUint64(<<128, 64, 12, 6, 0, 0, 0, 0>>)
iv128a == BigEndianUint64(<<128, 128, 12, 8, 0, 0, 0, 0>>)

(* bits.RotateLeft64(x, -n) *)
rotr(x, n) == {(b + 64 - n) % 64 : b \in x}

(* a pad in the last of the n bytes instead of after them *)
padInside(n) == IF n = 0 THEN {} ELSE SHL({7}, 64 - 8 * n, 64)

(* a pad one bit lower: 0x40 << (56 - 8*n) *)
padLow(n) == SHL({6}, 56 - 8 * n, 64)

(* 0x80 << (56 - 8*n) *)
pad(n) == SHL({7}, 56 - 8 * n, 64)

(* the bytes of b, at most 8, from the most significant byte down *)
be64n(b) ==
  {x \in Bits64 : /\ 7 - (x \div 8) < Len(b)
                  /\ (b[8 - (x \div 8)] \div (2 ^ (x % 8))) % 2 = 1}

(* the n = len(b) bytes that put64n(b, x) stores *)
put64n(n, x) == [k \in 1..n |-> ByteOf(x, 8 - k)] \o << >>

(* a mask that clears the whole word *)
maskAll(x, n) == {}
(* a mask that clears nothing *)
maskNothing(x, n) == x

(* x with its n most significant bytes cleared *)
mask(x, n) == {b \in x : b < 64 - 8 * n}

(* The stages of roundGeneric.  The round constant and the first          *)
(* substitution give the five words s0..s4 the S-box is applied to.        *)

(* the Keccak S-box: <<t0, t1, t2, t3, t4>> *)
sbox(s0, s1, s2, s3, s4) ==
  << XOR(s0, AND(NOT64(s1), s2)),
     XOR(s1, AND(NOT64(s2), s3)),
     XOR(s2, AND(NOT64(s3), s4)),
     XOR(s3, AND(NOT64(s4), s0)),
     XOR(s4, AND(NOT64(s0), s1)) >>

(* the second substitution: t1 ^= t0; t0 ^= t4; t3 ^= t2; t2 = ^t2 *)
substitute(t) ==
  << XOR(t[1], t[5]), XOR(t[2], t[1]), NOT64(t[3]), XOR(t[4], t[3]), t[5] >>

(* x ^ rotr(x, a) ^ rotr(x, b) *)
sigma(x, a, b) == XOR(XOR(x, rotr(x, a)), rotr(x, b))

(* the linear diffusion layer, stored into s *)
diffuse(s, t) ==
  [s EXCEPT !.x0 = sigma(t[1], 19, 28),
            !.x1 = sigma(t[2], 61, 39),
            !.x2 = sigma(t[3], 1, 6),
            !.x3 = sigma(t[4], 10, 17),
            !.x4 = sigma(t[5], 7, 41)]

roundGeneric(s, C) ==
  diffuse(s, substitute(sbox(XOR(s.x0, s.x4), s.x1, XOR(XOR(s.x2, C), s.x1),
                             s.x3, XOR(s.x4, s.x3))))

(* the build without assembly *)
round(s, C) == roundGeneric(s, C)

(* The calls round(s, c) of a permutation, one after the other: c is      *)
(* [s, cs], the state and the round constants of the calls still to make.  *)
RECURSIVE rounds(_)
rounds(c) ==
  IF c.cs = << >> THEN c.s
  ELSE rounds([s |-> round(c.s, Word(Head(c.cs))), cs |-> Tail(c.cs)])

(* 0x96, 0x87, 0x78, 0x69, 0x5a, 0x4b *)
p6Generic(s) == rounds([s |-> s, cs |-> <<150, 135, 120, 105, 90, 75>>])

(* 0xb4, 0xa5, then as p6Generic *)
p8Generic(s) == rounds([s |-> s, cs |-> <<180, 165, 150, 135, 120, 105, 90, 75>>])

(* p12Generic without its first round, round(s, 0xf0) *)
p12FirstRoundDropped(s) ==
  rounds([s |-> s, cs |-> <<225, 210, 195, 180, 165, 150, 135, 120, 105, 90, 75>>])

(* 0xf0, 0xe1, 0xd2, 0xc3, then as p8Generic *)
p12Generic(s) ==
  rounds([s |-> s, cs |-> <<240, 225, 210, 195, 180, 165, 150, 135, 120, 105, 90, 75>>])

p12(s) == p12Generic(s)
p8(s) == p8Generic(s)
p6(s) == p6Generic(s)

(* state.init, on the zero value of the permutation state *)
asconInit(iv, k0, k1, n0, n1) ==
  LET s == p12([x0 |-> iv, x1 |-> k0, x2 |-> k1, x3 |-> n0, x4 |-> n1])
  IN [s EXCEPT !.x3 = XOR(@, k0), !.x4 = XOR(@, k1)]

finalize128a(s, k0, k1) ==
  LET t == p12([s EXCEPT !.x2 = XOR(@, k0), !.x3 = XOR(@, k1)])
  IN [t EXCEPT !.x3 = XOR(@, k0), !.x4 = XOR(@, k1)]

finalize128(s, k0, k1) ==
  LET t == p12([s EXCEPT !.x1 = XOR(@, k0), !.x2 = XOR(@, k1)])
  IN [t EXCEPT !.x3 = XOR(@, k0), !.x4 = XOR(@, k1)]

(* the part of additionalData128a inside `if len(ad) > 0` *)
RECURSIVE absorb128a(_, _)
absorb128a(s, ad) ==
  IF Len(ad) >= BlockSize128a
  THEN absorb128a(p8([s EXCEPT !.x0 = XOR(@, BigEndianUint64(SubSeq(ad, 1, 8))),
                               !.x1 = XOR(@, BigEndianUint64(SubSeq(ad, 9, 16)))]),
                  SubSeq(ad, 17, Len(ad)))
  ELSE IF Len(ad) >= 8
  THEN p8([s EXCEPT !.x0 = XOR(@, BigEndianUint64(SubSeq(ad, 1, 8))),
                    !.x1 = XOR(XOR(@, be64n(SubSeq(ad, 9, Len(ad)))), pad(Len(ad) - 8))])
  ELSE p8([s EXCEPT !.x0 = XOR(XOR(@, be64n(ad)), pad(Len(ad)))])

additionalData128a(s, ad) ==
  LET t == IF Len(ad) > 0 THEN absorb128a(s, ad) ELSE s
  IN [t EXCEPT !.x4 = XOR(@, {0})]

(* the part of additionalData128 inside `if len(ad) > 0` *)
RECURSIVE absorb128(_, _)
absorb128(s, ad) ==
  IF Len(ad) >= BlockSize128
  THEN absorb128(p6([s EXCEPT !.x0 = XOR(@, BigEndianUint64(SubSeq(ad, 1, 8)))]),
                 SubSeq(ad, 9, Len(ad)))
  ELSE p6([s EXCEPT !.x0 = XOR(XOR(@, be64n(ad)), pad(Len(ad)))])

(* an additionalData128 that separates the domains only after absorbing *)
additionalData128SepInside(s, ad) ==
  IF Len(ad) > 0 THEN [absorb128(s, ad) EXCEPT !.x4 = XOR(@, {0})] ELSE s

additionalData128(s, ad) ==
  LET t == IF Len(ad) > 0 THEN absorb128(s, ad) ELSE s
  IN [t EXCEPT !.x4 = XOR(@, {0})]

(* encrypt128a, decrypt128a, encrypt128, decrypt128 over the slices dst    *)
(* and src of m: [s, mem]                                                  *)
RECURSIVE encrypt128a(_, _, _, _)
encrypt128a(s, m, dst, src) ==
  IF src.len >= BlockSize128a
  THEN LET x0 == XOR(s.x0, BigEndianUint64(SubSeq(m, src.ptr, src.ptr + 7)))
           x1 == XOR(s.x1, BigEndianUint64(SubSeq(m, src.ptr + 8, src.ptr + 15)))
           m1 == Write(m, dst.ptr, BigEndianPutUint64(x0) \o BigEndianPutUint64(x1))
       IN encrypt128a(p8([s EXCEPT !.x0 = x0, !.x1 = x1]), m1,
                      SliceFrom(dst, BlockSize128a), SliceFrom(src, BlockSize128a))
  ELSE IF src.len >= 8
  THEN LET x0 == XOR(s.x0, BigEndianUint64(SubSeq(m, src.ptr, src.ptr + 7)))
           x1 == XOR(XOR(s.x1, be64n(Read(m, SliceFrom(src, 8)))), pad(src.len - 8))
           m1 == Write(m, dst.ptr, BigEndianPutUint64(x0) \o put64n(dst.len - 8, x1))
       IN [s |-> [s EXCEPT !.x0 = x0, !.x1 = x1], mem |-> m1]
  ELSE LET x0 == XOR(s.x0, be64n(Read(m, src)))
       IN [s |-> [s EXCEPT !.x0 = XOR(x0, pad(src.len))],
           mem |-> Write(m, dst.ptr, put64n(dst.len, x0))]

RECURSIVE decrypt128a(_, _, _, _)
decrypt128a(s, m, dst, src) ==
  IF src.len >= BlockSize128a
  THEN LET c0 == BigEndianUint64(SubSeq(m, src.ptr, src.ptr + 7))
           c1 == BigEndianUint64(SubSeq(m, src.ptr + 8, src.ptr + 15))
           m1 == Write(m, dst.ptr, BigEndianPutUint64(XOR(s.x0, c0))
                                     \o BigEndianPutUint64(XOR(s.x1, c1)))
       IN decrypt128a(p8([s EXCEPT !.x0 = c0, !.x1 = c1]), m1,
                      SliceFrom(dst, BlockSize128a), SliceFrom(src, BlockSize128a))
  ELSE IF src.len >= 8
  THEN LET c0 == BigEndianUint64(SubSeq(m, src.ptr, src.ptr + 7))
           c1 == be64n(Read(m, SliceFrom(src, 8)))
           m1 == Write(m, dst.ptr, BigEndianPutUint64(XOR(s.x0, c0))
                                     \o put64n(dst.len - 8, XOR(s.x1, c1)))
       IN [s |-> [s EXCEPT !.x0 = c0,
                           !.x1 = XOR(OR(mask(@, src.len - 8), c1), pad(src.len - 8))],
           mem |-> m1]
  ELSE LET c0 == be64n(Read(m, src))
       IN [s |-> [s EXCEPT !.x0 = XOR(OR(mask(@, src.len), c0), pad(src.len))],
           mem |-> Write(m, dst.ptr, put64n(dst.len, XOR(s.x0, c0)))]

RECURSIVE encrypt128(_, _, _, _)
encrypt128(s, m, dst, src) ==
  IF src.len >= BlockSize128
  THEN LET x0 == XOR(s.x0, BigEndianUint64(SubSeq(m, src.ptr, src.ptr + 7)))
       IN encrypt128(p6([s EXCEPT !.x0 = x0]), Write(m, dst.ptr, BigEndianPutUint64(x0)),
                     SliceFrom(dst, BlockSize128), SliceFrom(src, BlockSize128))
  ELSE LET x0 == XOR(s.x0, be64n(Read(m, src)))
       IN [s |-> [s EXCEPT !.x0 = XOR(x0, pad(src.len))],
           mem |-> Write(m, dst.ptr, put64n(dst.len, x0))]

(* state.encrypt of the earlier ascon package (ASCON-128a): as            *)
(* encrypt128a, but the short last block XORs the pad before put64n        *)
RECURSIVE encryptEarlier(_, _, _, _)
encryptEarlier(s, m, dst, src) ==
  IF src.len >= BlockSize128a
  THEN LET x0 == XOR(s.x0, BigEndianUint64(SubSeq(m, src.ptr, src.ptr + 7)))
           x1 == XOR(s.x1, BigEndianUint64(SubSeq(m, src.ptr + 8, src.ptr + 15)))
           m1 == Write(m, dst.ptr, BigEndianPutUint64(x0) \o BigEndianPutUint64(x1))
       IN encryptEarlier(p8([s EXCEPT !.x0 = x0, !.x1 = x1]), m1,
                         SliceFrom(dst, BlockSize128a), SliceFrom(src, BlockSize128a))
  ELSE IF src.len >= 8
  THEN LET x0 == XOR(s.x0, BigEndianUint64(SubSeq(m, src.ptr, src.ptr + 7)))
           x1 == XOR(XOR(s.x1, be64n(Read(m, SliceFrom(src, 8)))), pad(src.len - 8))
           m1 == Write(m, dst.ptr, BigEndianPutUint64(x0) \o put64n(dst.len - 8, x1))
       IN [s |-> [s EXCEPT !.x0 = x0, !.x1 = x1], mem |-> m1]
  ELSE LET x0 == XOR(XOR(s.x0, be64n(Read(m, src))), pad(src.len))
       IN [s |-> [s EXCEPT !.x0 = x0], mem |-> Write(m, dst.ptr, put64n(dst.len, x0))]

(* encrypt128a with the two statements of the longer last block in the     *)
(* other order: put64n first, the pad after it                             *)
RECURSIVE encrypt128aPadLast(_, _, _, _)
encrypt128aPadLast(s, m, dst, src) ==
  IF src.len >= BlockSize128a
  THEN LET x0 == XOR(s.x0, BigEndianUint64(SubSeq(m, src.ptr, src.ptr + 7)))
           x1 == XOR(s.x1, BigEndianUint64(SubSeq(m, src.ptr + 8, src.ptr + 15)))
           m1 == Write(m, dst.ptr, BigEndianPutUint64(x0) \o BigEndianPutUint64(x1))
       IN encrypt128aPadLast(p8([s EXCEPT !.x0 = x0, !.x1 = x1]), m1,
                             SliceFrom(dst, BlockSize128a), SliceFrom(src, BlockSize128a))
  ELSE IF src.len >= 8
  THEN LET x0 == XOR(s.x0, BigEndianUint64(SubSeq(m, src.ptr, src.ptr + 7)))
           x1 == XOR(s.x1, be64n(Read(m, SliceFrom(src, 8))))
           m1 == Write(m, dst.ptr, BigEndianPutUint64(x0) \o put64n(dst.len - 8, x1))
       IN [s |-> [s EXCEPT !.x0 = x0, !.x1 = XOR(x1, pad(src.len - 8))], mem |-> m1]
  ELSE LET x0 == XOR(s.x0, be64n(Read(m, src)))
       IN [s |-> [s EXCEPT !.x0 = XOR(x0, pad(src.len))],
           mem |-> Write(m, dst.ptr, put64n(dst.len, x0))]

(* encrypt128 with its last two statements in the other order: the pad     *)
(* first, put64n after it                                                  *)
RECURSIVE encrypt128PadFirst(_, _, _, _)
encrypt128PadFirst(s, m, dst, src) ==
  IF src.len >= BlockSize128
  THEN LET x0 == XOR(s.x0, BigEndianUint64(SubSeq(m, src.ptr, src.ptr + 7)))
       IN encrypt128PadFirst(p6([s EXCEPT !.x0 = x0]),
                             Write(m, dst.ptr, BigEndianPutUint64(x0)),
                             SliceFrom(dst, BlockSize128), SliceFrom(src, BlockSize128))
  ELSE LET x0 == XOR(XOR(s.x0, be64n(Read(m, src))), pad(src.len))
       IN [s |-> [s EXCEPT !.x0 = x0], mem |-> Write(m, dst.ptr, put64n(dst.len, x0))]

RECURSIVE decrypt128(_, _, _, _)
decrypt128(s, m, dst, src) ==
  IF src.len >= BlockSize128
  THEN LET c == BigEndianUint64(SubSeq(m, src.ptr, src.ptr + 7))
       IN decrypt128(p6([s EXCEPT !.x0 = c]),
                     Write(m, dst.ptr, BigEndianPutUint64(XOR(s.x0, c))),
                     SliceFrom(dst, BlockSize128), SliceFrom(src, BlockSize128))
  ELSE LET c == be64n(Read(m, src))
       IN [s |-> [s EXCEPT !.x0 = XOR(OR(mask(@, src.len), c), pad(src.len))],
           mem |-> Write(m, dst.ptr, put64n(dst.len, XOR(s.x0, c)))]

(* state.tag: the 16 bytes written *)
asconTag(s) == BigEndianPutUint64(s.x3) \o BigEndianPutUint64(s.x4)

(* New128 and New128a: [err, a] *)
New128(key) ==
  IF Len(key) # AsconKeySize THEN [err |-> TRUE, a |-> NilAEAD]
  ELSE [err |-> FALSE, a |-> [k0 |-> BigEndianUint64(SubSeq(key, 1, 8)),
                              k1 |-> BigEndianUint64(SubSeq(key, 9, 16)), iv |-> iv128]]

(* a New128a that takes the first 16 bytes of a longer key *)
New128aLongKey(key) ==
  IF Len(key) < AsconKeySize THEN [err |-> TRUE, a |-> NilAEAD]
  ELSE [err |-> FALSE, a |-> [k0 |-> BigEndianUint64(SubSeq(key, 1, 8)),
                              k1 |-> BigEndianUint64(SubSeq(key, 9, 16)), iv |-> iv128a]]

New128a(key) ==
  IF Len(key) # AsconKeySize THEN [err |-> TRUE, a |-> NilAEAD]
  ELSE [err |-> FALSE, a |-> [k0 |-> BigEndianUint64(SubSeq(key, 1, 8)),
                              k1 |-> BigEndianUint64(SubSeq(key, 9, 16)), iv |-> iv128a]]

(* the `if a.iv == iv128a` choices of Seal and Open *)
asconAD(a, s, ad) ==
  IF a.iv = iv128a THEN additionalData128a(s, ad) ELSE additionalData128(s, ad)
asconEncrypt(a, s, m, dst, src) ==
  IF a.iv = iv128a THEN encrypt128a(s, m, dst, src) ELSE encrypt128(s, m, dst, src)
asconDecrypt(a, s, m, dst, src) ==
  IF a.iv = iv128a THEN decrypt128a(s, m, dst, src) ELSE decrypt128(s, m, dst, src)
asconFinalize(a, s) ==
  IF a.iv = iv128a THEN finalize128a(s, a.k0, a.k1) ELSE finalize128(s, a.k0, a.k1)

(* the permutation state Seal and Open start the message from: n0, n1,     *)
(* s.init and the associated data                                          *)
asconStart(a, nonce, ad) ==
  asconAD(a, asconInit(a.iv, a.k0, a.k1, BigEndianUint64(SubSeq(nonce, 1, 8)),
                       BigEndianUint64(SubSeq(nonce, 9, 16))), ad)

(* ascon.Seal from SliceForAppend on: s is the permutation state, f what   *)
(* SliceForAppend returned, e the result of the encryption                 *)
asconSealed(a, e, f) == SealReturn(a, e.mem, f, asconTag(asconFinalize(a, e.s)))
asconSealInto(a, s, f, plaintext) ==
  IF InexactOverlap(f.tail, plaintext) THEN SealPanic(a, f.mem, "overlap")
  ELSE asconSealed(a, asconEncrypt(a, s, f.mem, SliceTo(f.tail, plaintext.len), plaintext), f)

(* ascon.Seal *)
asconSeal(a, m, dst, nonce, plaintext, ad) ==
  IF Len(nonce) # AsconNonceSize THEN SealPanic(a, m, "nonce")
  ELSE asconSealInto(a, asconStart(a, nonce, ad),
                     SliceForAppend(m, dst, plaintext.len + AsconTagSize), plaintext)

(* ascon.Open from SliceForAppend on; tag and ct are the two parts the     *)
(* ciphertext argument is cut into, d the result of the decryption         *)
asconOpened(a, d, f, tag) ==
  OpenReturn(a, d.mem, f, asconTag(asconFinalize(a, d.s)), Read(d.mem, tag))
asconOpenInto(a, s, f, tag, ct) ==
  IF InexactOverlap(f.tail, ct) THEN OpenPanic(a, f.mem, f.tail, "overlap")
  ELSE asconOpened(a, asconDecrypt(a, s, f.mem, f.tail, ct), f, tag)

(* ascon.Open *)
asconOpen(a, m, dst, nonce, ciphertext, ad) ==
  IF Len(nonce) # AsconNonceSize THEN OpenPanic(a, m, NilSlice, "nonce")
  ELSE IF ciphertext.len < AsconTagSize THEN OpenShort(a, m)
  ELSE asconOpenInto(a, asconStart(a, nonce, ad),
                     SliceForAppend(m, dst, ciphertext.len - AsconTagSize),
                     SliceFrom(ciphertext, ciphertext.len - AsconTagSize),
                     SliceTo(ciphertext, ciphertext.len - AsconTagSize))

---------------------------------------------------------------------------
(* The system: a caller that has built one cipher instance from a key and  *)
(* makes Seal and Open calls on it.                                        *)

VARIABLES
  cipher,  (* which constructor built the instance                        *)
  key,     (* the key it was built from                                   *)
  aead,    (* the instance: the struct `state` of Grain, `ascon` of ASCON *)
  mem,     (* the caller's memory after the last call                     *)
  call,    (* the last call: its arguments and what it returned           *)
  sealed,  (* the last message a Seal call returned                       *)
  ncalls,  (* the number of calls made                                    *)
  insts,   (* the instances concurrent callers use, by name               *)
  procs,   (* the concurrent callers: each one's call and how far it got  *)
  probe    (* the last run of one function of the package on its own      *)

vars == <<cipher, key, aead, mem, call, sealed, ncalls, insts, procs, probe>>

(* the bounds of the model *)
MaxCalls == 2
MaxPlain == 2
MaxAD == 1
LongLen == 2045
MaxDER == 130
MaxNext == 1026
RunLen == 31
MaxStream == 6
MaxStreamAD == 3

Ciphers == {"grain", "ascon128", "ascon128a"}
TagSizeOf(c) == IF c = "grain" THEN GrainTagSize ELSE AsconTagSize
NonceSizeOf(c) == IF c = "grain" THEN GrainNonceSize ELSE AsconNonceSize

(* the constructors: grain.New, ascon.New128, ascon.New128a *)
New(c, k) ==
  CASE c = "grain" -> grainNew(k).s
    [] c = "ascon128" -> New128(k).a
    [] c = "ascon128a" -> New128a(k).a

(* what the constructor of cipher c returned for key k: [err, aead] *)
Constructed(c, k) ==
  CASE c = "grain" -> [err |-> grainNew(k).err, aead |-> grainNew(k).s]
    [] c = "ascon128" -> [err |-> New128(k).err, aead |-> New128(k).a]
    [] c = "ascon128a" -> [err |-> New128a(k).err, aead |-> New128a(k).a]

(* cipher.AEAD's Seal and Open on instance a of cipher c *)
aeadSeal(c, a, m, dst, nonce, plaintext, ad) ==
  IF c = "grain" THEN grainSeal(a, m, dst, nonce, plaintext, ad)
  ELSE asconSeal(a, m, dst, nonce, plaintext, ad)

aeadOpen(c, a, m, dst, nonce, ciphertext, ad) ==
  IF c = "grain" THEN grainOpen(a, m, dst, nonce, ciphertext, ad)
  ELSE asconOpen(a, m, dst, nonce, ciphertext, ad)

(* the bytes of the slice a call returned *)
Returned(r) == Read(r.mem, r.ret)

(* The inputs: the bytes 00 01 02 ..., all-zero bytes, and fixed patterns  *)
(* for plaintext, associated data, the bytes already in dst and the spare  *)
(* capacity behind them.                                                   *)
Counting(n) == [k \in 1..n |-> k - 1] \o << >>
Keys == {Zeros(16), Counting(16)}
Nonces(c) == {Zeros(NonceSizeOf(c)), Counting(NonceSizeOf(c))}
Plain(n) == [k \in 1..n |-> (37 * k + 11) % 256] \o << >>
AData(n) == [k \in 1..n |-> (59 * k + 7) % 256] \o << >>
Prefix == <<170, 187>>
Spare(n) == [k \in 1..n |-> 238] \o << >>
Max(a, b) == IF a > b THEN a ELSE b

(* How the caller lays out dst and the input `in` of a call that appends   *)
(* `room` bytes:                                                           *)
(*   nil      dst is nil                                                   *)
(*   alloc    dst holds Prefix and has no spare capacity                   *)
(*   cap      dst holds Prefix and has capacity for the result             *)
(*   inplace  dst is in[:0], in a buffer with capacity for the result      *)
(*   overlap  dst is in[:1] with that capacity: the bytes appended start   *)
(*            at in[1]                                                     *)
DstModes == {"nil", "alloc", "cap", "inplace"}
Layout(dm, in, room) ==
  LET n == Len(in)
      p == Len(Prefix)
      spare == Max(room - n, 0)
  IN CASE dm = "nil" ->
            [mem |-> in, dst |-> NilSlice, src |-> [ptr |-> 1, len |-> n, cap |-> n]]
       [] dm = "alloc" ->
            [mem |-> Prefix \o in, dst |-> [ptr |-> 1, len |-> p, cap |-> p],
             src |-> [ptr |-> p + 1, len |-> n, cap |-> n]]
       [] dm = "cap" ->
            [mem |-> Prefix \o Spare(room) \o in,
             dst |-> [ptr |-> 1, len |-> p, cap |-> p + room],
             src |-> [ptr |-> p + room + 1, len |-> n, cap |-> n]]
       [] dm = "inplace" ->
            [mem |-> in \o Spare(spare), dst |-> [ptr |-> 1, len |-> 0, cap |-> n + spare],
             src |-> [ptr |-> 1, len |-> n, cap |-> n + spare]]
       [] dm = "overlap" ->
            [mem |-> in \o Spare(room + 1),
             dst |-> [ptr |-> 1, len |-> 1, cap |-> n + room + 1],
             src |-> [ptr |-> 1, len |-> n, cap |-> n + room + 1]]

(* What the caller does to a sealed message before it opens it: nothing,   *)
(* flip bit n of the ciphertext body, of the tag, of the nonce or of the   *)
(* associated data, keep only the first n bytes, or pass a nonce of n      *)
(* bytes.                                                                  *)
NoTamper == [part |-> "none", n |-> 0]
FlipBit(bs, k) ==
  LET b == 2 ^ (k % 8)
      v == bs[(k \div 8) + 1]
  IN [bs EXCEPT ![(k \div 8) + 1] = IF (v \div b) % 2 = 1 THEN v - b ELSE v + b]
TamperedNonce(sl, t) ==
  CASE t.part = "nonce" -> FlipBit(sl.nonce, t.n)
    [] t.part = "noncelen" -> Counting(t.n)
    [] OTHER -> sl.nonce
TamperedAD(sl, t) == IF t.part = "ad" THEN FlipBit(sl.ad, t.n) ELSE sl.ad
TamperedText(sl, t) ==
  CASE t.part = "ct" -> FlipBit(sl.out, t.n)
    [] t.part = "tag" -> FlipBit(sl.out, 8 * Len(sl.pt) + t.n)
    [] t.part = "short" -> SubSeq(sl.out, 1, t.n)
    [] OTHER -> sl.out

NoCall ==
  [op |-> "none", nonce |-> << >>, text |-> << >>, ad |-> << >>,
   mode |-> "nil", tamper |-> NoTamper, dst |-> NilSlice, src |-> NilSlice,
   mem0 |-> << >>, ret |-> NilSlice, out |-> NilSlice, err |-> FALSE, panic |-> "none",
   expectedTag |-> << >>, tag |-> << >>, idx |-> 0]
NoneSealed ==
  [nonce |-> << >>, pt |-> << >>, ad |-> << >>, out |-> << >>, mode |-> "nil", idx |-> 0]

(* no concurrent callers, and no function run on its own *)
NoInsts == << >>
NoProcs == << >>
NoProbe == [fn |-> "none", in |-> << >>, out |-> << >>, n |-> 0]

(* the constructor of cipher c has returned the instance for key k *)
Start(c, k) ==
  /\ cipher = c
  /\ key = k
  /\ aead = New(c, k)
  /\ mem = << >>
  /\ call = NoCall
  /\ sealed = NoneSealed
  /\ ncalls = 0
  /\ insts = NoInsts
  /\ procs = NoProcs
  /\ probe = NoProbe

(* aead.Seal(dst, nonce, pt, ad), with dst and pt laid out as dm says *)
Seal(nonce, pt, ad, dm) ==
  /\ ncalls < MaxCalls
  /\ \E lay \in {Layout(dm, pt, Len(pt) + TagSizeOf(cipher))} :
     \E r \in {aeadSeal(cipher, aead, lay.mem, lay.dst, nonce, lay.src, ad)} :
        /\ aead' = r.self
        /\ mem' = r.mem
        /\ call' = [op |-> "Seal", nonce |-> nonce, text |-> pt, ad |-> ad,
                    mode |-> dm, tamper |-> NoTamper, dst |-> lay.dst, src |-> lay.src,
                    mem0 |-> lay.mem, ret |-> r.ret, out |-> NilSlice, err |-> FALSE,
                    panic |-> r.panic, expectedTag |-> << >>, tag |-> r.tag,
                    idx |-> ncalls + 1]
        /\ sealed' = IF r.panic = "none"
                     THEN [nonce |-> nonce, pt |-> pt, ad |-> ad,
                           out |-> SubSeq(Read(r.mem, r.ret), lay.dst.len + 1, r.ret.len),
                           mode |-> dm, idx |-> ncalls + 1]
                     ELSE sealed
  /\ ncalls' = ncalls + 1
  /\ UNCHANGED <<cipher, key, insts, procs, probe>>

(* aead.Open(dst, nonce, ciphertext, ad): the caller opens the last sealed *)
(* message after doing t to it, with dst and ciphertext laid out as dm says *)
Open(t, dm) ==
  /\ ncalls < MaxCalls
  /\ sealed.idx > 0
  /\ \E nonce \in {TamperedNonce(sealed, t)}, ct \in {TamperedText(sealed, t)},
        ad \in {TamperedAD(sealed, t)} :
     \E lay \in {Layout(dm, ct, Max(Len(ct) - TagSizeOf(cipher), 0))} :
     \E r \in {aeadOpen(cipher, aead, lay.mem, lay.dst, nonce, lay.src, ad)} :
        /\ aead' = r.self
        /\ mem' = r.mem
        /\ call' = [op |-> "Open", nonce |-> nonce, text |-> ct, ad |-> ad,
                    mode |-> dm, tamper |-> t, dst |-> lay.dst, src |-> lay.src,
                    mem0 |-> lay.mem, ret |-> r.ret, out |-> r.out, err |-> r.err,
                    panic |-> r.panic, expectedTag |-> r.expectedTag, tag |-> r.tag,
                    idx |-> ncalls + 1]
  /\ ncalls' = ncalls + 1
  /\ UNCHANGED <<cipher, key, sealed, insts, procs, probe>>

---------------------------------------------------------------------------
(* Spec: any cipher, short messages, every layout of dst; a sealed message *)
(* is opened as it is, with the last bit of its tag flipped, or cut below  *)
(* the tag size.                                                           *)

BasicTampers ==
  {NoTamper, [part |-> "tag", n |-> 0],
   [part |-> "short", n |-> 0], [part |-> "short", n |-> TagSizeOf(cipher) - 1]}
OpenModes == {"nil", "cap"}

Init == \E c \in Ciphers : Start(c, Counting(16))

SealAny ==
  \E L \in 0..MaxPlain, A \in 0..MaxAD, dm \in DstModes :
    Seal(Counting(NonceSizeOf(cipher)), Plain(L), AData(A), dm)

OpenAny == \E t \in BasicTampers, dm \in OpenModes : Open(t, dm)

Next == SealAny \/ OpenAny

Spec == Init /\ [][Next]_vars

---------------------------------------------------------------------------
(* SpecLong: a Grain instance whose first call seals a message long enough *)
(* for the register buffers to fill up and compact (reinit), followed by   *)
(* the calls of Spec.                                                      *)

InitLong == Start("grain", Counting(16))

SealLong ==
  /\ ncalls = 0
  /\ Seal(Counting(GrainNonceSize), Plain(LongLen), << >>, "nil")

NextLong == SealLong \/ SealAny \/ OpenAny

SpecLong == InitLong /\ [][NextLong]_vars

---------------------------------------------------------------------------
(* SpecAscon: the round trip of the fuzz test on an ASCON instance: a      *)
(* message of every block shape is sealed into a fresh buffer, then        *)
(* opened.                                                                 *)

BlockLens == {0, 1, 7, 8, 9, 15, 16, 17, 23, 24, 25}
BlockADLens == {0, 1, 7, 8, 9, 15, 16, 17}

InitAscon == \E c \in {"ascon128", "ascon128a"}, k \in Keys : Start(c, k)

SealBlocks ==
  /\ call.op # "Seal"
  /\ \E n \in Nonces(cipher), L \in BlockLens, A \in BlockADLens :
       Seal(n, Plain(L), AData(A), "nil")

OpenSealed ==
  /\ call.op = "Seal"
  /\ Open(NoTamper, "nil")

NextAscon == SealBlocks \/ OpenSealed

SpecAscon == InitAscon /\ [][NextAscon]_vars

---------------------------------------------------------------------------
(* SpecTamper: a message is sealed, then opened as it is or with any one   *)
(* bit of its ciphertext body, tag, nonce or associated data flipped.      *)

BitFlips(sl) ==
  {[part |-> "ct", n |-> k] : k \in 0..(8 * Len(sl.pt) - 1)}
    \cup {[part |-> "tag", n |-> k] : k \in 0..(8 * TagSizeOf(cipher) - 1)}
    \cup {[part |-> "nonce", n |-> k] : k \in 0..(8 * NonceSizeOf(cipher) - 1)}
    \cup {[part |-> "ad", n |-> k] : k \in 0..(8 * Len(sl.ad) - 1)}

InitTamper == \E c \in Ciphers : Start(c, Counting(16))

SealSmall ==
  /\ call.op # "Seal"
  /\ \E L \in {0, MaxPlain}, A \in {0, MaxAD} :
       Seal(Counting(NonceSizeOf(cipher)), Plain(L), AData(A), "nil")

OpenTampered ==
  /\ call.op = "Seal"
  /\ \E t \in {NoTamper} \cup BitFlips(sealed), dm \in OpenModes : Open(t, dm)

NextTamper == SealSmall \/ OpenTampered

SpecTamper == InitTamper /\ [][NextTamper]_vars

---------------------------------------------------------------------------
(* SpecAbort: calls a program should not make: a nonce one byte too short  *)
(* or too long, and a dst whose appended bytes start one byte into the     *)
(* input.                                                                  *)

NonceLens(c) == {NonceSizeOf(c) - 1, NonceSizeOf(c), NonceSizeOf(c) + 1}
AbortModes == DstModes \cup {"overlap"}

InitAbort == \E c \in Ciphers : Start(c, Counting(16))

SealAbort ==
  /\ call.op = "none"
  /\ \E nl \in NonceLens(cipher), L \in 0..MaxPlain, A \in {0, MaxAD}, dm \in AbortModes :
       Seal(Counting(nl), Plain(L), AData(A), dm)

OpenAbort ==
  /\ call.op = "Seal"
  /\ call.panic = "none"
  /\ \E nl \in NonceLens(cipher), dm \in {"nil", "cap", "overlap"} :
       Open([part |-> "noncelen", n |-> nl], dm)

NextAbort == SealAbort \/ OpenAbort

SpecAbort == InitAbort /\ [][NextAbort]_vars

---------------------------------------------------------------------------
(* SpecNew: a constructor is called with a key of any length; when it      *)
(* returns a cipher, a message is sealed with it and opened.               *)

KeyLens == {0, 1, 8, 15, 16, 17, 24, 32}
KeysOfAnyLen == {Counting(n) : n \in KeyLens} \cup {Zeros(n) : n \in KeyLens}

InitNew ==
  \E c \in Ciphers, k \in KeysOfAnyLen :
    /\ cipher = c
    /\ key = k
    /\ aead = Constructed(c, k).aead
    /\ mem = << >>
    /\ call = [NoCall EXCEPT !.op = "New", !.err = Constructed(c, k).err]
    /\ sealed = NoneSealed
    /\ ncalls = 0
    /\ insts = NoInsts
    /\ procs = NoProcs
    /\ probe = NoProbe

SealNew ==
  /\ call.op = "New"
  /\ ~call.err
  /\ \E n \in Nonces(cipher), L \in 0..MaxPlain, A \in 0..MaxAD :
       Seal(n, Plain(L), AData(A), "nil")

OpenNew ==
  /\ call.op = "Seal"
  /\ Open(NoTamper, "nil")

NextNew == SealNew \/ OpenNew

SpecNew == InitNew /\ [][NextNew]_vars

---------------------------------------------------------------------------
(* SpecPair: two callers, each with its own instance and its own buffers,  *)
(* run one Seal or Open call each.  A call takes three steps, and the      *)
(* steps of the two calls interleave in any order:                         *)
(*   init   the checks of the nonce and of the ciphertext length, and the  *)
(*          start of the cipher state (Grain: s.init on the instance;      *)
(*          ASCON: the local state, up to the associated data)             *)
(*   crypt  SliceForAppend, the overlap check, encrypt or decrypt          *)
(*   tag    the tag and the return                                         *)

Callers == {1, 2}

IdleProc(c, k) ==
  [cipher |-> c, key |-> k, pc |-> "idle", op |-> "none", nonce |-> << >>,
   text |-> << >>, ad |-> << >>, mem |-> << >>, dst |-> NilSlice, src |-> NilSlice,
   st |-> << >>, f |-> [head |-> NilSlice, tail |-> NilSlice], ret |-> << >>,
   err |-> FALSE, panic |-> "none", mixed |-> FALSE,
   alone |-> [ret |-> << >>, err |-> FALSE, panic |-> "none"]]

(* the call has ended: what it returned *)
procDone(pr, m, ret, err, why) ==
  [pr EXCEPT !.pc = "done", !.mem = m, !.ret = Read(m, ret), !.err = err, !.panic = why]

(* one state for all the instances of a cipher, as a package-level         *)
(* variable would be                                                       *)
putInstShared(is, id, v) ==
  [k \in DOMAIN is |-> IF DOMAIN is[k] = DOMAIN v THEN v ELSE is[k]]

(* a write through the receiver: New gave each instance a state of its own *)
putInst(is, id, v) == [is EXCEPT ![id] = v]

(* the steps return [inst, pr]: the instance and the caller after the step *)
stepInit(c, inst, pr) ==
  IF Len(pr.nonce) # NonceSizeOf(c)
  THEN [inst |-> inst, pr |-> procDone(pr, pr.mem, NilSlice, FALSE, "nonce")]
  ELSE IF pr.op = "Open" /\ pr.src.len < TagSizeOf(c)
  THEN [inst |-> inst, pr |-> procDone(pr, pr.mem, NilSlice, TRUE, "none")]
  ELSE IF c = "grain"
  THEN [inst |-> grainInit(inst, pr.nonce), pr |-> [pr EXCEPT !.pc = "crypt"]]
  ELSE [inst |-> inst,
        pr |-> [pr EXCEPT !.pc = "crypt", !.st = asconStart(inst, pr.nonce, pr.ad)]]

(* f is what SliceForAppend returned, in the input without its tag (Open) *)
(* or whole (Seal), e the result of encrypt or decrypt                    *)
stepCrypted(inst, pr, f, e) ==
  [inst |-> IF pr.cipher = "grain" THEN e.s ELSE inst,
   pr |-> [pr EXCEPT !.pc = "tag", !.mem = e.mem, !.f = [head |-> f.head, tail |-> f.tail],
                     !.st = IF pr.cipher = "grain" THEN << >> ELSE e.s]]

stepCryptInto(c, inst, pr, f, in) ==
  IF InexactOverlap(f.tail, in)
  THEN [inst |-> inst, pr |-> procDone(pr, f.mem, NilSlice, FALSE, "overlap")]
  ELSE stepCrypted(inst, pr, f,
         CASE c = "grain" /\ pr.op = "Seal" ->
                encrypt(inst, f.mem, SliceTo(f.tail, f.tail.len - GrainTagSize), in, pr.ad)
           [] c = "grain" /\ pr.op = "Open" -> decrypt(inst, f.mem, f.tail, in, pr.ad)
           [] c # "grain" /\ pr.op = "Seal" ->
                asconEncrypt(inst, pr.st, f.mem, SliceTo(f.tail, in.len), in)
           [] OTHER -> asconDecrypt(inst, pr.st, f.mem, f.tail, in))

stepCrypt(c, inst, pr) ==
  IF pr.op = "Seal"
  THEN stepCryptInto(c, inst, pr, SliceForAppend(pr.mem, pr.dst, pr.src.len + TagSizeOf(c)),
                     pr.src)
  ELSE stepCryptInto(c, inst, pr, SliceForAppend(pr.mem, pr.dst, pr.src.len - TagSizeOf(c)),
                     SliceTo(pr.src, pr.src.len - TagSizeOf(c)))

(* r is what SealReturn or OpenReturn gives *)
stepReturned(pr, r, err) == [inst |-> r.self, pr |-> procDone(pr, r.mem, r.ret, err, "none")]

stepTagged(c, inst, pr, tag) ==
  IF pr.op = "Seal" THEN stepReturned(pr, SealReturn(inst, pr.mem, pr.f, tag), FALSE)
  ELSE stepReturned(pr, OpenReturn(inst, pr.mem, pr.f, tag,
                                   Read(pr.mem, SliceFrom(pr.src, pr.src.len - TagSizeOf(c)))),
                    OpenReturn(inst, pr.mem, pr.f, tag,
                               Read(pr.mem, SliceFrom(pr.src, pr.src.len - TagSizeOf(c)))).err)

stepTag(c, inst, pr) ==
  stepTagged(c, inst, pr,
             IF c = "grain" THEN grainTag(inst) ELSE asconTag(asconFinalize(inst, pr.st)))

(* the arguments of the call of a caller: a plaintext to seal, or what a   *)
(* new instance with the caller's key returns for it, to open              *)
PairInput(c, k, op, nonce, pt, ad) ==
  IF op = "Seal" THEN pt
  ELSE Returned(aeadSeal(c, New(c, k), pt, NilSlice, nonce,
                         [ptr |-> 1, len |-> Len(pt), cap |-> Len(pt)], ad))

(* what the call returns when nothing else runs *)
RunAlone(c, inst, op, nonce, text, ad) ==
  IF op = "Seal"
  THEN [ret |-> Returned(aeadSeal(c, inst, text, NilSlice, nonce,
                                  [ptr |-> 1, len |-> Len(text), cap |-> Len(text)], ad)),
        err |-> FALSE, panic |-> "none"]
  ELSE [ret |-> Returned(aeadOpen(c, inst, text, NilSlice, nonce,
                                  [ptr |-> 1, len |-> Len(text), cap |-> Len(text)], ad)),
        err |-> aeadOpen(c, inst, text, NilSlice, nonce,
                         [ptr |-> 1, len |-> Len(text), cap |-> Len(text)], ad).err,
        panic |-> "none"]

InitPair ==
  \E c1 \in Ciphers, c2 \in Ciphers :
    /\ cipher = "grain"
    /\ key = Counting(16)
    /\ aead = NilAEAD
    /\ mem = << >>
    /\ call = NoCall
    /\ sealed = NoneSealed
    /\ ncalls = 0
    /\ insts = <<New(c1, Counting(16)), New(c2, Zeros(16))>>
    /\ procs = <<IdleProc(c1, Counting(16)), IdleProc(c2, Zeros(16))>>
    /\ probe = NoProbe

Begin(p) ==
  /\ procs[p].pc = "idle"
  /\ \E op \in {"Seal", "Open"} :
     \E nonce \in {Counting(NonceSizeOf(procs[p].cipher))} :
     \E text \in {PairInput(procs[p].cipher, procs[p].key, op, nonce,
                            Plain(MaxPlain), AData(MaxAD))} :
     \E r \in {RunAlone(procs[p].cipher, insts[p], op, nonce, text, AData(MaxAD))} :
        procs' = [procs EXCEPT ![p] =
                    [@ EXCEPT !.pc = "init", !.op = op, !.nonce = nonce, !.text = text,
                              !.ad = AData(MaxAD), !.mem = text,
                              !.src = [ptr |-> 1, len |-> Len(text), cap |-> Len(text)],
                              !.alone = r]]
  /\ UNCHANGED <<cipher, key, aead, mem, call, sealed, ncalls, insts, probe>>

(* caller p makes step r of its call; the step is mixed in with the other  *)
(* caller's call when that call has started and has not returned           *)
Stepped(p, r) ==
  /\ insts' = putInst(insts, p, r.inst)
  /\ procs' = [procs EXCEPT ![p] =
                 [r.pr EXCEPT !.mixed = @ \/ procs[3 - p].pc \in {"crypt", "tag"}]]
  /\ UNCHANGED <<cipher, key, aead, mem, call, sealed, ncalls, probe>>

StepInit(p) ==
  /\ procs[p].pc = "init"
  /\ \E r \in {stepInit(procs[p].cipher, insts[p], procs[p])} : Stepped(p, r)

StepCrypt(p) ==
  /\ procs[p].pc = "crypt"
  /\ \E r \in {stepCrypt(procs[p].cipher, insts[p], procs[p])} : Stepped(p, r)

StepTag(p) ==
  /\ procs[p].pc = "tag"
  /\ \E r \in {stepTag(procs[p].cipher, insts[p], procs[p])} : Stepped(p, r)

NextPair == \E p \in Callers : Begin(p) \/ StepInit(p) \/ StepCrypt(p) \/ StepTag(p)

SpecPair == InitPair /\ [][NextPair]_vars

---------------------------------------------------------------------------
(* SpecShared: two callers make one Seal or Open call each on ONE          *)
(* instance, each with its own buffers and its own nonce.  Both calls are  *)
(* made on the instance as New returned it; their steps are those of       *)
(* SpecPair and interleave in any order.                                   *)

SharedNonce(c, p) == IF p = 1 THEN Counting(NonceSizeOf(c)) ELSE Zeros(NonceSizeOf(c))

InitShared ==
  \E c \in Ciphers :
    /\ cipher = c
    /\ key = Counting(16)
    /\ aead = NilAEAD
    /\ mem = << >>
    /\ call = NoCall
    /\ sealed = NoneSealed
    /\ ncalls = 0
    /\ insts = <<New(c, Counting(16))>>
    /\ procs = <<IdleProc(c, Counting(16)), IdleProc(c, Counting(16))>>
    /\ probe = NoProbe

BeginShared(p) ==
  /\ procs[p].pc = "idle"
  /\ procs[3 - p].pc \in {"idle", "init"}
  /\ \E op \in {"Seal", "Open"} :
     \E nonce \in {SharedNonce(cipher, p)} :
     \E text \in {PairInput(cipher, key, op, nonce, Plain(MaxPlain), AData(MaxAD))} :
     \E r \in {RunAlone(cipher, insts[1], op, nonce, text, AData(MaxAD))} :
        procs' = [procs EXCEPT ![p] =
                    [@ EXCEPT !.pc = "init", !.op = op, !.nonce = nonce, !.text = text,
                              !.ad = AData(MaxAD), !.mem = text,
                              !.src = [ptr |-> 1, len |-> Len(text), cap |-> Len(text)],
                              !.alone = r]]
  /\ UNCHANGED <<cipher, key, aead, mem, call, sealed, ncalls, insts, probe>>

(* caller p makes step r of its call on the one instance *)
SteppedShared(p, r) ==
  /\ insts' = putInst(insts, 1, r.inst)
  /\ procs' = [procs EXCEPT ![p] =
                 [r.pr EXCEPT !.mixed = @ \/ procs[3 - p].pc \in {"crypt", "tag"}]]
  /\ UNCHANGED <<cipher, key, aead, mem, call, sealed, ncalls, probe>>

StepInitShared(p) ==
  /\ procs[p].pc = "init"
  /\ \E r \in {stepInit(cipher, insts[1], procs[p])} : SteppedShared(p, r)

StepCryptShared(p) ==
  /\ procs[p].pc = "crypt"
  /\ \E r \in {stepCrypt(cipher, insts[1], procs[p])} : SteppedShared(p, r)

StepTagShared(p) ==
  /\ procs[p].pc = "tag"
  /\ \E r \in {stepTag(cipher, insts[1], procs[p])} : SteppedShared(p, r)

NextShared ==
  \E p \in Callers :
    BeginShared(p) \/ StepInitShared(p) \/ StepCryptShared(p) \/ StepTagShared(p)

SpecShared == InitShared /\ [][NextShared]_vars

---------------------------------------------------------------------------
(* SpecDER: encodeDER is run on byte strings of every length up to MaxDER, *)
(* and of 255, 256 and 300 bytes.                                          *)

DERLens == (0..MaxDER) \cup {255, 256, 300}

ApplyEncodeDER ==
  /\ \E n \in DERLens :
       probe' = [fn |-> "encodeDER", in |-> AData(n), out |-> encodeDER(AData(n)), n |-> n]
  /\ UNCHANGED <<cipher, key, aead, mem, call, sealed, ncalls, insts, procs>>

InitDER == Start("grain", Counting(16))

NextDER == ApplyEncodeDER

SpecDER == InitDER /\ [][NextDER]_vars

---------------------------------------------------------------------------
(* The bit-serial registers of the doc comment of type state: a register   *)
(* is the set of the positions 0..127 of its 1 bits, bit 0 the oldest.     *)

(* the 128 bits of the words reg[i .. i+3], word i first, low bit first *)
Window(reg, i) == UNION {{32 * j + x : x \in reg[i + j]} : j \in 0..3}

Tap(r, x) == IF x \in r THEN 1 ELSE 0

(* one clocking: bit 0 leaves, the feedback bit enters at position 127 *)
Shifted(r, bit) == {x - 1 : x \in r \ {0}} \cup (IF bit = 1 THEN {127} ELSE {})

(* L(S_t) *)
lfsrFeedback(s) ==
  (Tap(s, 0) + Tap(s, 7) + Tap(s, 38) + Tap(s, 70) + Tap(s, 81) + Tap(s, 96)) % 2

(* s_0 + F(B_t) *)
nfsrFeedback(s, b) ==
  (Tap(s, 0) + Tap(b, 0) + Tap(b, 26) + Tap(b, 56) + Tap(b, 91) + Tap(b, 96)
   + Tap(b, 3) * Tap(b, 67) + Tap(b, 11) * Tap(b, 13) + Tap(b, 17) * Tap(b, 18)
   + Tap(b, 27) * Tap(b, 59) + Tap(b, 40) * Tap(b, 48) + Tap(b, 61) * Tap(b, 65)
   + Tap(b, 68) * Tap(b, 84)
   + Tap(b, 22) * Tap(b, 24) * Tap(b, 25)
   + Tap(b, 70) * Tap(b, 78) * Tap(b, 82)
   + Tap(b, 88) * Tap(b, 92) * Tap(b, 93) * Tap(b, 95)) % 2

(* y_t = h(x) + s_93 + the sum of b_j over A = {2, 15, 36, 45, 64, 73, 89} *)
preOutput(s, b) ==
  (Tap(b, 12) * Tap(s, 8) + Tap(s, 13) * Tap(s, 20) + Tap(b, 95) * Tap(s, 42)
   + Tap(s, 60) * Tap(s, 79) + Tap(b, 12) * Tap(b, 95) * Tap(s, 94)
   + Tap(s, 93)
   + Tap(b, 2) + Tap(b, 15) + Tap(b, 36) + Tap(b, 45) + Tap(b, 64) + Tap(b, 73)
   + Tap(b, 89)) % 2

BitAt(bit, t) == IF bit = 1 THEN {t} ELSE {}

(* clockings t .. 31 of c = [s, b, t, v, u, y]: v, u and y collect the     *)
(* feedback bits of the two registers and the pre-output bits             *)
RECURSIVE clockings(_)
clockings(c) ==
  IF c.t >= 32 THEN c
  ELSE clockings([s |-> Shifted(c.s, lfsrFeedback(c.s)),
                  b |-> Shifted(c.b, nfsrFeedback(c.s, c.b)),
                  t |-> c.t + 1,
                  v |-> c.v \cup BitAt(lfsrFeedback(c.s), c.t),
                  u |-> c.u \cup BitAt(nfsrFeedback(c.s, c.b), c.t),
                  y |-> c.y \cup BitAt(preOutput(c.s, c.b), c.t)])

(* 32 clockings of the registers held in words i .. i+3 of the buffers *)
Clocked32(s) ==
  clockings([s |-> Window(s.lfsr, s.i), b |-> Window(s.nfsr, s.i), t |-> 0,
             v |-> {}, u |-> {}, y |-> {}])

---------------------------------------------------------------------------
(* SpecNext: the generator of a Grain instance, one step at a time: a call *)
(* starts with s.init(nonce) and then makes next(s) calls, two of them     *)
(* (the empty message) or MaxNext, enough for the register buffers to fill *)
(* up and compact; then the following call starts.  NextRun is RunLen next *)
(* calls in a row, the generator steps of 2 * RunLen bytes of a message.   *)

CallSteps == {2, MaxNext}

(* c.k next calls in a row on c.s, the keystream words dropped *)
RECURSIVE nextRun(_)
nextRun(c) ==
  IF c.k <= 0 THEN c.s ELSE nextRun([s |-> next(c.s).s, k |-> c.k - 1])

InitCall ==
  /\ ncalls < MaxCalls
  /\ probe.fn = "none" \/ probe.n \in CallSteps
  /\ \E nonce \in Nonces("grain") :
       /\ aead' = grainInit(aead, nonce)
       /\ probe' = [fn |-> "init", in |-> nonce, out |-> {}, n |-> 0]
  /\ ncalls' = ncalls + 1
  /\ UNCHANGED <<cipher, key, mem, call, sealed, insts, procs>>

NextStep ==
  /\ probe.fn \in {"init", "next", "run"}
  /\ probe.n < MaxNext
  /\ \E r \in {next(aead)} :
       /\ aead' = r.s
       /\ probe' = [fn |-> "next", in |-> probe.in, out |-> r.ks, n |-> probe.n + 1]
  /\ UNCHANGED <<cipher, key, mem, call, sealed, ncalls, insts, procs>>

NextRun ==
  /\ probe.fn \in {"init", "run"}
  /\ probe.n + RunLen <= MaxNext
  /\ \E s \in {nextRun([s |-> aead, k |-> RunLen])} :
       /\ aead' = s
       /\ probe' = [fn |-> "run", in |-> probe.in, out |-> {}, n |-> probe.n + RunLen]
  /\ UNCHANGED <<cipher, key, mem, call, sealed, ncalls, insts, procs>>

InitNext == Start("grain", Counting(16))

NextNext == InitCall \/ NextStep \/ NextRun

SpecNext == InitNext /\ [][NextNext]_vars

---------------------------------------------------------------------------
(* SpecDemux: getkb or getmb applied to one 32-bit word, drawn from the    *)
(* words with at most two 1 bits and the words with at most two 0 bits.    *)

FewBits == {{}} \cup {{j, k} : j \in 0..31, k \in 0..31}

DemuxWords == FewBits \cup {(0..31) \ y : y \in FewBits}

ApplyGetkb ==
  /\ probe.fn = "none"
  /\ \E y \in DemuxWords : probe' = [fn |-> "getkb", in |-> y, out |-> getkb(y), n |-> 0]
  /\ UNCHANGED <<cipher, key, aead, mem, call, sealed, ncalls, insts, procs>>

ApplyGetmb ==
  /\ probe.fn = "none"
  /\ \E y \in DemuxWords : probe' = [fn |-> "getmb", in |-> y, out |-> getmb(y), n |-> 0]
  /\ UNCHANGED <<cipher, key, aead, mem, call, sealed, ncalls, insts, procs>>

InitDemux == Start("grain", Counting(16))

NextDemux == ApplyGetkb \/ ApplyGetmb

SpecDemux == InitDemux /\ [][NextDemux]_vars

---------------------------------------------------------------------------
(* SpecAcc: the authenticator of a Grain instance run on its own: acc and  *)
(* reg hold any of AccWords, and either accumulate(ms, pt) is called once  *)
(* or accumulate8 is called on the low bytes and then on the high bytes of *)
(* ms and pt.  probe.out holds the outcomes of the conditionals.           *)

AccWords == {{}, Bits64, {0, 63}, {x \in Bits64 : x % 2 = 0}, {x \in Bits64 : x % 3 = 1}}

Halfwords ==
  {{}, 0..15, {0}, {15}, {7, 8}, 8..15, {x \in 0..15 : x % 2 = 1}, {x \in 0..15 : x % 3 = 0}}

AccInput(A, R, ms, pt) == [acc |-> A, reg |-> R, ms |-> ms, pt |-> pt]

ApplyAccumulate ==
  /\ probe.fn = "none"
  /\ \E A \in AccWords, R \in AccWords, ms \in Halfwords, pt \in Halfwords :
     \E s \in {[aead EXCEPT !.acc = A, !.reg = R]} :
       /\ aead' = accumulate(s, ms, pt)
       /\ probe' = [fn |-> "accumulate", in |-> AccInput(A, R, ms, pt),
                    out |-> accLoop16(s, ms, pt).br, n |-> 0]
  /\ UNCHANGED <<cipher, key, mem, call, sealed, ncalls, insts, procs>>

ApplyAccumulate8 ==
  /\ probe.fn = "none"
  /\ \E A \in AccWords, R \in AccWords, ms \in Halfwords, pt \in Halfwords :
     \E s \in {[aead EXCEPT !.acc = A, !.reg = R]} :
     \E h \in {accumulate8(s, Trunc(ms, 8), Trunc(pt, 8))} :
       /\ aead' = accumulate8(h, SHR(ms, 8), SHR(pt, 8))
       /\ probe' = [fn |-> "accumulate8", in |-> AccInput(A, R, ms, pt),
                    out |-> accLoop8(s, Trunc(ms, 8), Trunc(pt, 8)).br
                            \o accLoop8(h, SHR(ms, 8), SHR(pt, 8)).br,
                    n |-> 0]
  /\ UNCHANGED <<cipher, key, mem, call, sealed, ncalls, insts, procs>>

InitAcc == Start("grain", Counting(16))

NextAcc == ApplyAccumulate \/ ApplyAccumulate8

SpecAcc == InitAcc /\ [][NextAcc]_vars

---------------------------------------------------------------------------
(* SpecAsm: the amd64 accumulate routine and accumulateGeneric are run on  *)
(* the same acc, reg, ms and pt.  The registers that the routine does not  *)
(* load hold any of EntryValues when it is entered.                        *)

AsmWords == {{}, Bits64, {x \in Bits64 : x % 3 = 1}}
AsmHalfwords == {{}, 0..15, {0, 15}, {x \in 0..15 : x % 2 = 1}}

(* acctmp, and mask, rem, t64 and t32, on entry *)
EntryValues ==
  {[acctmp |-> g, mask |-> o, rem |-> o, t64 |-> o, t32 |-> o] :
     g \in {{}, {0}, 0..15}, o \in {{}, Bits64}}

AccRegs(s) == [acc |-> s.acc, reg |-> s.reg]

ApplyAccumulateAsm ==
  /\ probe.fn = "none"
  /\ \E A \in AsmWords, R \in AsmWords, ms \in AsmHalfwords, pt \in AsmHalfwords,
        e \in EntryValues :
     \E s \in {[aead EXCEPT !.acc = A, !.reg = R]} :
       /\ aead' = accumulateAsm(s, ms, pt, e)
       /\ probe' = [fn |-> "asm", in |-> [acc |-> A, reg |-> R, ms |-> ms, pt |-> pt, e |-> e],
                    out |-> [asm |-> AccRegs(accumulateAsm(s, ms, pt, e)),
                             earlier |-> accumulateAsmEarlier(R, A, ms, pt),
                             generic |-> AccRegs(accumulateGeneric(s, ms, pt))],
                    n |-> 0]
  /\ UNCHANGED <<cipher, key, mem, call, sealed, ncalls, insts, procs>>

InitAsm == Start("grain", Counting(16))

NextAsm == ApplyAccumulateAsm

SpecAsm == InitAsm /\ [][NextAsm]_vars

---------------------------------------------------------------------------
(* SpecStream: a Grain instance seals a message of 0..MaxStream bytes with *)
(* 0..MaxStreamAD bytes of associated data, and opens what Seal returned.  *)

SealStream ==
  /\ call.op = "none"
  /\ \E n \in Nonces("grain"), L \in 0..MaxStream, A \in 0..MaxStreamAD :
       Seal(n, Plain(L), AData(A), "nil")

OpenStream ==
  /\ call.op = "Seal"
  /\ Open(NoTamper, "nil")

InitStream == Start("grain", Counting(16))

NextStream == SealStream \/ OpenStream

SpecStream == InitStream /\ [][NextStream]_vars

---------------------------------------------------------------------------
(* SpecSteps: one Seal or Open call of ASCON-128 or ASCON-128a, a step at  *)
(* a time.  procs[1] is the call: pc its position, s the permutation       *)
(* state, ad and src the bytes of the associated data and of the message   *)
(* not yet consumed, out the bytes written, nperm the permutations applied *)
(* to the associated data, ev the steps made so far:                       *)
(*   "init" s.init            "ad" a block XORed into the rate             *)
(*   "p" p6/p8 on the associated data     "sep" s.x4 ^= 1                  *)
(*   "msg" a block or the last part of the message     "fin" finalize, tag *)

StepADLens == {0, 1, 7, 8, 9, 15, 16, 17, 32}
StepLens == {0, 1, 8, 9, 16, 17}

rateOf(a) == IF a.iv = iv128a THEN BlockSize128a ELSE BlockSize128

(* one pass of `for len(ad) >= BlockSize`, before its permutation *)
absorbBlockXor(a, s, ad) ==
  IF a.iv = iv128a
  THEN [s EXCEPT !.x0 = XOR(@, BigEndianUint64(SubSeq(ad, 1, 8))),
                 !.x1 = XOR(@, BigEndianUint64(SubSeq(ad, 9, 16)))]
  ELSE [s EXCEPT !.x0 = XOR(@, BigEndianUint64(SubSeq(ad, 1, 8)))]

(* the statements after the loop, before the last permutation *)
absorbLastXor(a, s, ad) ==
  IF a.iv = iv128a /\ Len(ad) >= 8
  THEN [s EXCEPT !.x0 = XOR(@, BigEndianUint64(SubSeq(ad, 1, 8))),
                 !.x1 = XOR(XOR(@, be64n(SubSeq(ad, 9, Len(ad)))), pad(Len(ad) - 8))]
  ELSE [s EXCEPT !.x0 = XOR(XOR(@, be64n(ad)), pad(Len(ad)))]

(* p8(s) in additionalData128a and encrypt128a, p6(s) in the 128 ones *)
permB(a, s) == IF a.iv = iv128a THEN p8(s) ELSE p6(s)

(* `s.x4 ^= 1` *)
separate(s) == [s EXCEPT !.x4 = XOR(@, {0})]

(* one pass of `for len(src) >= BlockSize` of encrypt and of decrypt on    *)
(* the block blk: [s, out]                                                 *)
encryptBlock(a, s, blk) ==
  IF a.iv = iv128a
  THEN [s |-> p8([s EXCEPT !.x0 = XOR(@, BigEndianUint64(SubSeq(blk, 1, 8))),
                           !.x1 = XOR(@, BigEndianUint64(SubSeq(blk, 9, 16)))]),
        out |-> BigEndianPutUint64(XOR(s.x0, BigEndianUint64(SubSeq(blk, 1, 8))))
                \o BigEndianPutUint64(XOR(s.x1, BigEndianUint64(SubSeq(blk, 9, 16))))]
  ELSE [s |-> p6([s EXCEPT !.x0 = XOR(@, BigEndianUint64(SubSeq(blk, 1, 8)))]),
        out |-> BigEndianPutUint64(XOR(s.x0, BigEndianUint64(SubSeq(blk, 1, 8))))]

decryptBlock(a, s, blk) ==
  IF a.iv = iv128a
  THEN [s |-> p8([s EXCEPT !.x0 = BigEndianUint64(SubSeq(blk, 1, 8)),
                           !.x1 = BigEndianUint64(SubSeq(blk, 9, 16))]),
        out |-> BigEndianPutUint64(XOR(s.x0, BigEndianUint64(SubSeq(blk, 1, 8))))
                \o BigEndianPutUint64(XOR(s.x1, BigEndianUint64(SubSeq(blk, 9, 16))))]
  ELSE [s |-> p6([s EXCEPT !.x0 = BigEndianUint64(SubSeq(blk, 1, 8))]),
        out |-> BigEndianPutUint64(XOR(s.x0, BigEndianUint64(SubSeq(blk, 1, 8))))]

(* the statements after that loop, on the rest of the message (less than   *)
(* a block): src is at address 1 and dst behind it                         *)
cryptLastOut(e, n) == [s |-> e.s, out |-> SubSeq(e.mem, n + 1, 2 * n)]
cryptLast(a, op, s, rest) ==
  IF op = "Seal"
  THEN cryptLastOut(asconEncrypt(a, s, rest \o Zeros(Len(rest)),
                                 [ptr |-> Len(rest) + 1, len |-> Len(rest), cap |-> Len(rest)],
                                 [ptr |-> 1, len |-> Len(rest), cap |-> Len(rest)]), Len(rest))
  ELSE cryptLastOut(asconDecrypt(a, s, rest \o Zeros(Len(rest)),
                                 [ptr |-> Len(rest) + 1, len |-> Len(rest), cap |-> Len(rest)],
                                 [ptr |-> 1, len |-> Len(rest), cap |-> Len(rest)]), Len(rest))

StepNonce == Counting(AsconNonceSize)

IdleCall ==
  [pc |-> "idle", op |-> "none", s |-> << >>, s0 |-> << >>, ad0 |-> << >>, ad |-> << >>,
   src0 |-> << >>, src |-> << >>, out |-> << >>, tag |-> << >>, nperm |-> 0, ev |-> << >>]

InitSteps ==
  \E c \in {"ascon128", "ascon128a"} :
    /\ cipher = c
    /\ key = Counting(16)
    /\ aead = New(c, Counting(16))
    /\ mem = << >>
    /\ call = NoCall
    /\ sealed = NoneSealed
    /\ ncalls = 0
    /\ insts = NoInsts
    /\ procs = <<IdleCall>>
    /\ probe = NoProbe

StepTo(pr) ==
  /\ procs' = <<pr>>
  /\ UNCHANGED <<cipher, key, aead, mem, call, sealed, ncalls, insts, probe>>

(* n0, n1 and s.init *)
AsconBegin ==
  /\ procs[1].pc = "idle"
  /\ \E op \in {"Seal", "Open"}, A \in StepADLens, L \in StepLens :
     \E s \in {asconInit(aead.iv, aead.k0, aead.k1,
                         BigEndianUint64(SubSeq(StepNonce, 1, 8)),
                         BigEndianUint64(SubSeq(StepNonce, 9, 16)))} :
       StepTo([IdleCall EXCEPT !.pc = IF A > 0 THEN "ad" ELSE "sep", !.op = op,
                               !.s = s, !.s0 = s, !.ad0 = AData(A), !.ad = AData(A),
                               !.src0 = Plain(L), !.src = Plain(L), !.ev = <<"init">>])

AbsorbBlock ==
  /\ procs[1].pc = "ad"
  /\ Len(procs[1].ad) >= rateOf(aead)
  /\ \E s \in {permB(aead, absorbBlockXor(aead, procs[1].s, procs[1].ad))} :
       StepTo([procs[1] EXCEPT !.s = s, !.nperm = @ + 1, !.ev = @ \o <<"ad", "p">>,
                               !.ad = SubSeq(@, rateOf(aead) + 1, Len(@))])

AbsorbLast ==
  /\ procs[1].pc = "ad"
  /\ Len(procs[1].ad) < rateOf(aead)
  /\ \E s \in {permB(aead, absorbLastXor(aead, procs[1].s, procs[1].ad))} :
       StepTo([procs[1] EXCEPT !.s = s, !.nperm = @ + 1, !.ev = @ \o <<"ad", "p">>,
                               !.ad = << >>, !.pc = "sep"])

Separate ==
  /\ procs[1].pc = "sep"
  /\ StepTo([procs[1] EXCEPT !.s = separate(@), !.ev = Append(@, "sep"), !.pc = "crypt"])

CryptBlock ==
  /\ procs[1].pc = "crypt"
  /\ Len(procs[1].src) >= rateOf(aead)
  /\ \E e \in {IF procs[1].op = "Seal"
                THEN encryptBlock(aead, procs[1].s, procs[1].src)
                ELSE decryptBlock(aead, procs[1].s, procs[1].src)} :
       StepTo([procs[1] EXCEPT !.s = e.s, !.out = @ \o e.out, !.ev = Append(@, "msg"),
                               !.src = SubSeq(@, rateOf(aead) + 1, Len(@))])

CryptLast ==
  /\ procs[1].pc = "crypt"
  /\ Len(procs[1].src) < rateOf(aead)
  /\ \E e \in {cryptLast(aead, procs[1].op, procs[1].s, procs[1].src)} :
       StepTo([procs[1] EXCEPT !.s = e.s, !.out = @ \o e.out, !.ev = Append(@, "msg"),
                               !.src = << >>, !.pc = "final"])

Finalize ==
  /\ procs[1].pc = "final"
  /\ \E s \in {asconFinalize(aead, procs[1].s)} :
       StepTo([procs[1] EXCEPT !.s = s, !.tag = asconTag(s), !.ev = Append(@, "fin"),
                               !.pc = "done"])

NextSteps ==
  AsconBegin \/ AbsorbBlock \/ AbsorbLast \/ Separate \/ CryptBlock \/ CryptLast \/ Finalize

SpecSteps == InitSteps /\ [][NextSteps]_vars

---------------------------------------------------------------------------
(* SpecCrypt: the encrypt and the decrypt function of ASCON-128 or         *)
(* ASCON-128a run on their own: encrypt from a permutation state s on a    *)
(* message m, and decrypt from s on the ciphertext.  probe.out holds the   *)
(* ciphertext c, the state s1 after encrypt, the bytes m2 decrypt wrote    *)
(* and the state s2 after decrypt.                                         *)

CryptLens == (0..17) \cup {24, 25, 32, 33}

(* the states the message starts from in a call, and two other states *)
CryptStates(a) ==
  {asconStart(a, StepNonce, AData(A)) : A \in {0, 9}}
    \cup {[x0 |-> Bits64, x1 |-> Bits64, x2 |-> Bits64, x3 |-> Bits64, x4 |-> Bits64],
          [x0 |-> {}, x1 |-> {0}, x2 |-> {}, x3 |-> {63}, x4 |-> {}]}

(* e is the result of encrypt with src at address 1 and dst at n + 1, d    *)
(* the result of decrypt with src at n + 1 and dst at 2n + 1               *)
Crypted(e, d, n) ==
  [c |-> SubSeq(e.mem, n + 1, 2 * n), s1 |-> e.s, m2 |-> SubSeq(d.mem, 2 * n + 1, 3 * n),
   s2 |-> d.s]

Decrypted(a, s, e, n) ==
  Crypted(e, asconDecrypt(a, s, e.mem, [ptr |-> 2 * n + 1, len |-> n, cap |-> n],
                          [ptr |-> n + 1, len |-> n, cap |-> n]), n)

ApplyCrypt ==
  /\ probe.fn = "none"
  /\ \E s \in CryptStates(aead), L \in CryptLens :
     \E e \in {asconEncrypt(aead, s, Plain(L) \o Zeros(2 * L),
                             [ptr |-> L + 1, len |-> L, cap |-> L],
                             [ptr |-> 1, len |-> L, cap |-> L])} :
       probe' = [fn |-> "crypt", in |-> [s |-> s, m |-> Plain(L)],
                 out |-> Decrypted(aead, s, e, L), n |-> L]
  /\ UNCHANGED <<cipher, key, aead, mem, call, sealed, ncalls, insts, procs>>

(* the pad of the last block before put64n, and after it *)
asconEncryptPadFirst(a, s, m, dst, src) ==
  IF a.iv = iv128a THEN encryptEarlier(s, m, dst, src)
  ELSE encrypt128PadFirst(s, m, dst, src)
asconEncryptPadLast(a, s, m, dst, src) ==
  IF a.iv = iv128a THEN encrypt128aPadLast(s, m, dst, src) ELSE encrypt128(s, m, dst, src)

(* the ciphertext and the state of an encrypt result *)
Emitted(e, n) == [c |-> SubSeq(e.mem, n + 1, 2 * n), s |-> e.s]

ApplyPadOrder ==
  /\ probe.fn = "none"
  /\ \E s \in CryptStates(aead), L \in CryptLens :
     \E e \in {[code |-> Emitted(asconEncrypt(aead, s, Plain(L) \o Zeros(L),
                                              [ptr |-> L + 1, len |-> L, cap |-> L],
                                              [ptr |-> 1, len |-> L, cap |-> L]), L),
                first |-> Emitted(asconEncryptPadFirst(aead, s, Plain(L) \o Zeros(L),
                                              [ptr |-> L + 1, len |-> L, cap |-> L],
                                              [ptr |-> 1, len |-> L, cap |-> L]), L),
                last |-> Emitted(asconEncryptPadLast(aead, s, Plain(L) \o Zeros(L),
                                              [ptr |-> L + 1, len |-> L, cap |-> L],
                                              [ptr |-> 1, len |-> L, cap |-> L]), L)]} :
       probe' = [fn |-> "padorder", in |-> [s |-> s, m |-> Plain(L)], out |-> e, n |-> L]
  /\ UNCHANGED <<cipher, key, aead, mem, call, sealed, ncalls, insts, procs>>

InitCrypt == \E c \in {"ascon128", "ascon128a"} : Start(c, Counting(16))

NextCrypt == ApplyCrypt \/ ApplyPadOrder

SpecCrypt == InitCrypt /\ [][NextCrypt]_vars

---------------------------------------------------------------------------
(* Properties.                                                             *)

(* what Seal(nil, nonce, pt, ad) returns on an instance that New has just  *)
(* built from the same key and that has made no call yet                   *)
FreshSeal(nonce, pt, ad) ==
  Returned(aeadSeal(cipher, New(cipher, key), pt, NilSlice, nonce,
                    [ptr |-> 1, len |-> Len(pt), cap |-> Len(pt)], ad))

(* the last call was Open(nil, n, Seal(nil, n, m, a), a) *)
OpenedAsSealed ==
  /\ call.op = "Open"
  /\ call.tamper = NoTamper
  /\ call.mode = "nil"
  /\ sealed.mode = "nil"

(* the last call returned m with no error *)
ReturnedPlaintext ==
  /\ call.panic = "none"
  /\ ~call.err
  /\ Read(mem, call.ret) = sealed.pt

(* C1: on a Grain instance, whatever calls were made before (a call long   *)
(* enough to compact the register buffers included), opening what Seal     *)
(* returned, with the same nonce and associated data, returns the          *)
(* plaintext and no error.                                                 *)
GrainRoundTrip == (cipher = "grain" /\ OpenedAsSealed) => ReturnedPlaintext

(* C2: a Seal call returns the same ciphertext and tag as a Seal call with *)
(* the same key, nonce, plaintext and associated data on an instance with  *)
(* a different call history (here: none).                                  *)
SealDeterministic ==
  (call.op = "Seal" /\ call.panic = "none" /\ call.mode = "nil")
    => Read(mem, call.ret) = FreshSeal(call.nonce, call.text, call.ad)

(* C3: on an ASCON-128 or ASCON-128a instance, opening what Seal returned  *)
(* for a plaintext of length 0, 1, 7, 8, 9, 15, 16, 17, 23, 24 or 25,      *)
(* with the same nonce and associated data, returns the plaintext and no   *)
(* error.                                                                  *)
AsconRoundTrip ==
  (cipher \in {"ascon128", "ascon128a"} /\ OpenedAsSealed) => ReturnedPlaintext

AsconRoundTripWitness ==
  /\ cipher = "ascon128a"
  /\ OpenedAsSealed
  /\ Len(sealed.pt) = 25
  /\ Len(sealed.ad) = 17
  /\ ReturnedPlaintext

(* C4: a Seal or Open call leaves every field of the cipher instance as it *)
(* was before the call.                                                    *)
InstanceImmutable == [][aead' = aead]_vars

(* C5: Grain's Seal(plaintext[:0], n, plaintext, a) returns the same       *)
(* ciphertext and tag as Seal(nil, n, plaintext, a).                       *)
GrainSealInPlace ==
  (cipher = "grain" /\ call.op = "Seal" /\ call.mode = "inplace" /\ call.panic = "none")
    => Read(mem, call.ret) = FreshSeal(call.nonce, call.text, call.ad)

(* the last call was an Open of at least tag-size bytes, which compared    *)
(* the tag it was given with the tag it computed                           *)
OpenCompared == call.op = "Open" /\ call.tamper.part # "short"

(* the len(ciphertext) - tag_size bytes Open appended after dst are zero *)
OutputZeroed ==
  /\ call.out.len = Len(call.text) - TagSizeOf(cipher)
  /\ Read(mem, call.out) = Zeros(call.out.len)

(* C6: Open ends in one of two ways.  When the tag it was given equals the *)
(* tag it computed, it returns dst followed by the plaintext and no error. *)
(* Otherwise it returns no data and the authentication error, and the      *)
(* bytes it appended after dst are all zero; this is what happens when one *)
(* bit of the tag Seal returned has been flipped.                          *)
OpenTwoOutcomes ==
  OpenCompared =>
    /\ call.panic = "none"
    /\ IF call.tag = call.expectedTag
       THEN /\ ~call.err
            /\ Read(mem, call.ret) = Read(call.mem0, call.dst) \o sealed.pt
       ELSE /\ call.err
            /\ call.ret = NilSlice
            /\ OutputZeroed
    /\ call.tamper.part = "tag" => (call.err /\ OutputZeroed)

OpenTwoOutcomesWitness ==
  /\ OpenCompared
  /\ call.tamper.part = "tag"
  /\ call.mode = "cap"
  /\ call.out.len = MaxPlain
  /\ call.err
  /\ SubSeq(mem, 1, Len(Prefix) + MaxPlain) = Prefix \o Zeros(MaxPlain)

(* C7: after one bit of the ciphertext body, of the tag, of the nonce or   *)
(* of the associated data of a sealed message has been flipped, Open       *)
(* returns the authentication error.                                       *)
TamperRejected ==
  (call.op = "Open" /\ call.tamper.part \in {"ct", "tag", "nonce", "ad"})
    => (call.err /\ call.ret = NilSlice)

TamperRejectedWitness ==
  /\ call.op = "Open"
  /\ call.tamper.part = "ad"
  /\ Len(sealed.pt) = MaxPlain
  /\ call.err

(* E355159F292911F794CB1432A0103A8A and 7A834E6F09210957067B10FD831F0078 *)
KnownAnswer128 ==
  <<227, 85, 21, 159, 41, 41, 17, 247, 148, 203, 20, 50, 160, 16, 58, 138>>
KnownAnswer128a ==
  <<122, 131, 78, 111, 9, 33, 9, 87, 6, 123, 16, 253, 131, 31, 0, 120>>

(* the last call was Seal(nil, nonce, empty, empty) on an ASCON instance   *)
(* built from key k, with nonce n                                          *)
SealedEmpty(k, n) ==
  /\ cipher \in {"ascon128", "ascon128a"}
  /\ call.op = "Seal"
  /\ key = k
  /\ call.nonce = n
  /\ call.text = << >>
  /\ call.ad = << >>

(* the 16 bytes Seal returned are the known answer of the cipher *)
ReturnedKnownAnswer ==
  Read(mem, call.ret) = IF cipher = "ascon128" THEN KnownAnswer128 ELSE KnownAnswer128a

(* C8, as stated: with an all-zero key and an all-zero nonce, empty        *)
(* associated data and empty plaintext, Seal returns the known answer.     *)
KnownAnswerZeroKey == SealedEmpty(Zeros(16), Zeros(16)) => ReturnedKnownAnswer

(* C8: with the key 00 01 .. 0F and the nonce 00 01 .. 0F, empty           *)
(* associated data and empty plaintext, ASCON-128's Seal returns           *)
(* E355159F292911F794CB1432A0103A8A and ASCON-128a's Seal returns          *)
(* 7A834E6F09210957067B10FD831F0078.                                       *)
KnownAnswerCountingKey == SealedEmpty(Counting(16), Counting(16)) => ReturnedKnownAnswer

KnownAnswerWitness ==
  /\ cipher = "ascon128a"
  /\ SealedEmpty(Counting(16), Counting(16))
  /\ Read(mem, call.ret) = KnownAnswer128a

(* C9: the slice Seal returns has length len(dst) + len(plaintext) +       *)
(* tag_size (16 for ASCON, 8 for Grain); it starts with the bytes dst held *)
(* before the call, followed by the len(plaintext) bytes of the ciphertext *)
(* and ends with the tag.                                                  *)
SealAppends ==
  (call.op = "Seal" /\ call.panic = "none") =>
    /\ call.ret.len = call.dst.len + Len(call.text) + (IF cipher = "grain" THEN 8 ELSE 16)
    /\ SubSeq(Read(mem, call.ret), 1, call.dst.len) = Read(call.mem0, call.dst)
    /\ SubSeq(Read(mem, call.ret), call.dst.len + 1, call.dst.len + Len(call.text))
         = SubSeq(FreshSeal(call.nonce, call.text, call.ad), 1, Len(call.text))
    /\ SubSeq(Read(mem, call.ret), call.dst.len + Len(call.text) + 1, call.ret.len)
         = call.tag

SealAppendsWitness ==
  /\ call.op = "Seal"
  /\ call.panic = "none"
  /\ call.mode = "alloc"
  /\ cipher = "grain"
  /\ Len(call.text) = MaxPlain
  /\ call.ret.len = Len(Prefix) + MaxPlain + 8
  /\ SubSeq(Read(mem, call.ret), 1, Len(Prefix)) = Prefix

(* C10: Open with a nonce of the right length and fewer ciphertext bytes   *)
(* than a tag returns the authentication error and does not panic; it      *)
(* leaves the caller's memory and the fields of the instance as they were. *)
ShortOpenRejected ==
  [][(call'.op = "Open" /\ call'.tamper.part = "short") =>
       /\ call'.err
       /\ call'.panic = "none"
       /\ call'.ret = NilSlice
       /\ mem' = call'.mem0
       /\ aead' = aead]_vars

ShortOpenRejectedWitness ==
  /\ cipher = "grain"
  /\ call.op = "Open"
  /\ call.tamper = [part |-> "short", n |-> GrainTagSize - 1]
  /\ Len(call.text) = GrainTagSize - 1
  /\ Len(call.nonce) = GrainNonceSize
  /\ call.err

(* the nonce of the last call has the wrong length *)
BadNonce == Len(call.nonce) # NonceSizeOf(cipher)

(* the number of bytes the last call appends to dst *)
Room ==
  IF call.op = "Seal" THEN Len(call.text) + TagSizeOf(cipher)
  ELSE Len(call.text) - TagSizeOf(cipher)

(* the bytes the last call appends to dst share memory with its input, at  *)
(* different offsets of the two                                            *)
Misaligned ==
  /\ call.dst.cap >= call.dst.len + Room
  /\ call.dst.ptr + call.dst.len # call.src.ptr
  /\ \E a \in (call.dst.ptr + call.dst.len)..(call.dst.ptr + call.dst.len + Room - 1) :
       a \in call.src.ptr..(call.src.ptr + call.src.len - 1)

(* C11: a Seal or Open call whose nonce has the wrong length, or whose     *)
(* appended bytes overlap the input at different offsets, panics, and at   *)
(* the panic no byte of the caller's buffers has changed.                  *)
AbortsBeforeOutput ==
  (call.op \in {"Seal", "Open"} /\ (BadNonce \/ Misaligned))
    => (call.panic # "none" /\ mem = call.mem0)

(* C12: New, New128 and New128a return an error and no cipher when the key *)
(* is not 16 bytes long, and no error and a cipher otherwise; the cipher   *)
(* they return seals a message and opens it again.                         *)
ConstructionChecksKey ==
  /\ (Len(key) # 16) <=> (aead = NilAEAD)
  /\ call.op = "New" => (call.err <=> Len(key) # 16)
  /\ OpenedAsSealed => ReturnedPlaintext

ConstructionWitness ==
  /\ cipher = "ascon128a"
  /\ call.op = "New"
  /\ Len(key) = 17
  /\ call.err
  /\ aead = NilAEAD

(* what a caller's call returned: the bytes, the error, the panic *)
Outcome(pr) == [ret |-> pr.ret, err |-> pr.err, panic |-> pr.panic]

(* C13: when two calls run on two different instances, with their steps    *)
(* interleaved in any order, each call returns what it returns when it     *)
(* runs alone.                                                             *)
InstancesIndependent ==
  \A p \in DOMAIN procs : procs[p].pc = "done" => Outcome(procs[p]) = procs[p].alone

InstancesIndependentWitness ==
  /\ DOMAIN procs = Callers
  /\ \A p \in Callers :
       /\ procs[p].cipher = "grain"
       /\ procs[p].pc = "done"
       /\ procs[p].mixed
       /\ Outcome(procs[p]) = procs[p].alone
  /\ procs[1].op = "Seal"
  /\ procs[2].op = "Open"
  /\ ~procs[2].err

(* the registers and cursors of s hold key k and nonce n as the keyed      *)
(* initialization needs them before its first generator step               *)
KeyNonceLoaded(s, k, n) ==
  /\ \A j \in 0..3 : s.nfsr[j] = LittleEndianUint(SubSeq(k, 4 * j + 1, 4 * j + 4))
  /\ \A j \in 0..2 : s.lfsr[j] = LittleEndianUint(SubSeq(n, 4 * j + 1, 4 * j + 4))
  /\ s.lfsr[3] = 0..30
  /\ s.i = 0
  /\ s.count = 4

(* C14: in every Seal or Open call on a Grain instance, when the keyed     *)
(* initialization starts its first generator step, nfsr[0..3] hold the key *)
(* words, lfsr[0..2] the nonce words, lfsr[3] is 0x7fffffff, i = 0 and     *)
(* count = 4, whatever calls were made before.                             *)
KeyLoadedEveryCall ==
  [][(/\ cipher = "grain"
      /\ call'.idx # call.idx
      /\ call'.op \in {"Seal", "Open"}
      /\ call'.panic # "nonce"
      /\ call'.tamper.part # "short")
       => KeyNonceLoaded(grainLoad(aead, call'.nonce), key, call'.nonce)]_vars

(* the minimum number of bytes that hold n > 0, and the k-byte big-endian  *)
(* encoding of n                                                           *)
MinBytes(n) == CHOOSE k \in 1..8 : n < 256 ^ k /\ (k = 1 \/ n >= 256 ^ (k - 1))
BigEndianBytes(n, k) == [j \in 1..k |-> (n \div (256 ^ (k - j))) % 256]

(* the DER length header: one byte for a length below 128, else 0x80|k and *)
(* the k bytes of the length                                               *)
DERLength(n) ==
  IF n < 128 THEN <<n>>
  ELSE <<128 + MinBytes(n)>> \o BigEndianBytes(n, MinBytes(n))

(* C15: encodeDER(x) is the DER length header of len(x) followed by x:     *)
(* the byte len(x) when len(x) < 128, else the byte 0x80|n and the n-byte  *)
(* big-endian encoding of len(x), n the minimum number of bytes that hold  *)
(* len(x).                                                                 *)
DERHeaderEncodesLength ==
  probe.fn = "encodeDER" => probe.out = DERLength(Len(probe.in)) \o probe.in

(* the step is a next call on the Grain instance *)
NextCalled == probe'.fn = "next" /\ probe'.n = probe.n + 1

(* the step is an s.init call on the Grain instance *)
InitCalled == probe'.fn = "init" /\ ncalls' = ncalls + 1

GeneratorInRange ==
  /\ DOMAIN aead.lfsr = 0..(GrainBufWords - 1)
  /\ DOMAIN aead.nfsr = 0..(GrainBufWords - 1)
  /\ \A k \in 0..3 : aead.i + k \in DOMAIN aead.lfsr
  /\ aead.count \in DOMAIN aead.lfsr
  /\ \A k \in 4..15 : k \in DOMAIN aead.lfsr
  /\ probe.fn = "init" => aead.count = 16

GeneratorInRangeWitness ==
  /\ probe.fn = "next"
  /\ aead.i + 3 = GrainBufWords - 2
  /\ aead.count = GrainBufWords - 1

WordPlaced(n, k) ==
  CASE k < 8 -> [n.s EXCEPT !.lfsr[k + 4] = XOR(@, n.ks), !.nfsr[k + 4] = XOR(@, n.ks)]
    [] k \in {8, 9} ->
         [n.s EXCEPT !.acc = OR(@, SHL(n.ks, 32 * (k - 8), 64)),
                     !.lfsr[k + 4] = XOR(@, n.s.key[k - 8])]
    [] OTHER ->
         [n.s EXCEPT !.reg = OR(@, SHL(n.ks, 32 * (k - 10), 64)),
                     !.lfsr[k + 4] = XOR(@, n.s.key[k - 8])]

WordTaken(n, c) == [s |-> WordPlaced(n, c.k), k |-> c.k + 1, ws |-> Append(c.ws, n.ks)]

RECURSIVE TwelveWords(_)
TwelveWords(c) == IF c.k >= 12 THEN c ELSE TwelveWords(WordTaken(next(c.s), c))

(* C19: init consumes exactly twelve pre-output words in a fixed order:    *)
(* words 1..8 are XORed into lfsr[k+4] and nfsr[k+4] as they are produced, *)
(* words 9 and 10 are the low and the high half of acc while key[0] and    *)
(* key[1] go into lfsr[12] and lfsr[13], words 11 and 12 form reg the same *)
(* way while key[2] and key[3] go into lfsr[14] and lfsr[15]; on return    *)
(* i = 12, count = 16, and acc and reg hold those words and nothing else.  *)
InitTakesTwelveWords ==
  [][InitCalled =>
       \E c \in {TwelveWords([s |-> [grainLoad(aead, probe'.in) EXCEPT !.acc = {}, !.reg = {}],
                              k |-> 0, ws |-> << >>])} :
         /\ aead' = c.s
         /\ aead'.i = 12
         /\ aead'.count = 16
         /\ aead'.acc = Cat32(c.ws[10], c.ws[9])
         /\ aead'.reg = Cat32(c.ws[12], c.ws[11])]_vars

InitTakesTwelveWordsWitness ==
  /\ probe.fn = "init"
  /\ ncalls = 2
  /\ aead.i = 12
  /\ aead.count = 16
  /\ aead.acc # {}
  /\ aead.reg # {}

(* C20: getkb gathers the even bits of a word and getmb its odd bits: bit  *)
(* k of getkb(y) is bit 2k of y, bit k of getmb(y) is bit 2k+1 of y, for   *)
(* k in 0..15, and the results have no other 1 bits.                       *)
BitDemux ==
  /\ probe.fn = "getkb" => probe.out = {k \in 0..15 : 2 * k \in probe.in}
  /\ probe.fn = "getmb" => probe.out = {k \in 0..15 : 2 * k + 1 \in probe.in}

BitDemuxWitness ==
  /\ probe.fn = "getmb"
  /\ probe.in = {30, 31}
  /\ probe.out = {15}

(* The bit-serial authenticator: c is [A, R, j, ms, pt]; step j adds R to  *)
(* A when bit j of pt is 1 and then shifts bit j of ms into the top of R.  *)
RECURSIVE authBits(_)
authBits(c) ==
  IF c.j >= 16 THEN c
  ELSE authBits([A |-> IF c.j \in c.pt THEN XOR(c.A, c.R) ELSE c.A,
                 R |-> OR(SHR(c.R, 1), IF c.j \in c.ms THEN {63} ELSE {}),
                 j |-> c.j + 1, ms |-> c.ms, pt |-> c.pt])

AuthBitSerial(in) == authBits([A |-> in.acc, R |-> in.reg, j |-> 0, ms |-> in.ms, pt |-> in.pt])

(* (R >> j) | (ms << (64 - j)) mod 2^64 *)
AuthWindow(in, j) == OR(SHR(in.reg, j), SHL(in.ms, 64 - j, 64))

(* A XOR the windows of the 1 bits of pt *)
AuthSum(in) ==
  {b \in Bits64 :
     ((IF b \in in.acc THEN 1 ELSE 0)
      + Cardinality({j \in in.pt : b \in AuthWindow(in, j)})) % 2 = 1}

(* C21: accumulate(ms, pt) is sixteen steps of the bit-serial               *)
(* authenticator: afterwards reg = (reg >> 16) | ms << 48 and acc is the   *)
(* old acc XOR, over the 1 bits j of pt, the window                        *)
(* (reg >> j) | (ms << (64 - j)).                                          *)
AccumulateIsBitSerial ==
  probe.fn = "accumulate" =>
    /\ aead.acc = AuthBitSerial(probe.in).A
    /\ aead.reg = AuthBitSerial(probe.in).R
    /\ aead.reg = OR(SHR(probe.in.reg, 16), SHL(probe.in.ms, 48, 64))
    /\ aead.acc = AuthSum(probe.in)

AccumulateIsBitSerialWitness ==
  /\ probe.fn = "accumulate"
  /\ probe.in.reg = {0, 63}
  /\ probe.in.ms = {7, 8}
  /\ probe.in.pt = 8..15
  /\ probe.in.acc = {}
  /\ aead.acc # {}
  /\ aead.reg = {47, 55, 56}

(* C22: accumulate8 on the low bytes of ms and pt followed by accumulate8  *)
(* on their high bytes leaves the acc and reg that one accumulate(ms, pt)  *)
(* leaves.                                                                 *)
Accumulate8Composes ==
  probe.fn = "accumulate8" =>
    \E r \in {accumulate([aead EXCEPT !.acc = probe.in.acc, !.reg = probe.in.reg],
                          probe.in.ms, probe.in.pt)} :
      /\ aead.acc = r.acc
      /\ aead.reg = r.reg

Accumulate8ComposesWitness ==
  /\ probe.fn = "accumulate8"
  /\ probe.in.ms = {7, 8}
  /\ probe.in.pt = {7, 8}
  /\ probe.in.reg = Bits64
  /\ aead.acc # probe.in.acc
  /\ aead.reg # probe.in.reg

(* the outcomes of the conditionals of the call probe records when pt = 0 *)
BranchesOfZero(s) ==
  IF probe.fn = "accumulate" THEN accLoop16(s, probe.in.ms, {}).br
  ELSE accLoop8(s, Trunc(probe.in.ms, 8), {}).br
       \o accLoop8(accumulate8(s, Trunc(probe.in.ms, 8), {}), SHR(probe.in.ms, 8), {}).br

(* C24: the control flow of accumulate and of accumulate8 does not depend  *)
(* on pt: with acc, reg and ms fixed, a call makes the branch decisions    *)
(* the call with pt = 0 makes.                                             *)
AccumulatorBranchFree ==
  probe.fn \in {"accumulate", "accumulate8"} =>
    probe.out = BranchesOfZero([aead EXCEPT !.acc = probe.in.acc, !.reg = probe.in.reg])

(* The keystream bytes K[0], K[1], ... of the words next returns from     *)
(* state c.s on: the low and the high byte of getkb of each word.  c is    *)
(* [s, K, n], n the number of bytes asked for.                             *)
KeystreamWord(r, c) ==
  [s |-> r.s, K |-> c.K \o <<ByteOf(getkb(r.ks), 0), ByteOf(getkb(r.ks), 1)>>, n |-> c.n]

RECURSIVE Keystream(_)
Keystream(c) == IF Len(c.K) >= c.n THEN c.K ELSE Keystream(KeystreamWord(next(c.s), c))

XorByte(a, b) == ByteOf(XOR(Word(a), Word(b)), 0)

(* the step is a Seal or an Open call that returned a result *)
CallReturned == call'.idx = ncalls + 1 /\ call'.panic = "none" /\ ~call'.err

(* the number of message bytes of the call *)
MessageLen(cl) == IF cl.op = "Seal" THEN Len(cl.text) ELSE Len(cl.text) - GrainTagSize

(* C23: the keystream is consumed without a gap across the boundary        *)
(* between associated data and message: with h = len(encodeDER(ad)) and K  *)
(* the keystream bytes of the words produced after init, byte j of what    *)
(* Seal and Open return is byte j of the input XOR K[h + j].               *)
KeystreamContiguous ==
  [][CallReturned =>
       \E K \in {Keystream([s |-> grainInit(aead, call'.nonce), K |-> << >>,
                            n |-> Len(encodeDER(call'.ad)) + MessageLen(call')])} :
         \A j \in 1..MessageLen(call') :
           Read(mem', call'.ret)[j] = XorByte(call'.text[j], K[Len(encodeDER(call'.ad)) + j])]_vars

KeystreamContiguousWitness ==
  /\ call.op = "Open"
  /\ call.panic = "none"
  /\ ~call.err
  /\ Len(call.ad) = 2
  /\ Len(call.text) >= GrainTagSize + 4
  /\ Read(mem, call.ret) = sealed.pt

(* the positions of the steps named e in the steps of the call *)
StepsNamed(e) == {i \in DOMAIN procs[1].ev : procs[1].ev[i] \in e}

(* C25: in every Seal and Open of ASCON-128 and ASCON-128a, s.x4 ^= 1 is    *)
(* applied exactly once, after every step of the associated data (its last *)
(* permutation included) and before the first step of the message, also    *)
(* when the associated data is empty; the state the message starts from is *)
(* the one Seal and Open compute, and the result is the one Seal returns.  *)
SeparatorOnce ==
  /\ Cardinality(StepsNamed({"sep"})) <= 1
  /\ \A i \in StepsNamed({"ad", "p"}), j \in StepsNamed({"sep"}) : i < j
  /\ \A i \in StepsNamed({"msg", "fin"}) : \E j \in StepsNamed({"sep"}) : j < i
  /\ procs[1].pc \in {"crypt", "final", "done"} =>
       /\ Cardinality(StepsNamed({"sep"})) = 1
       /\ procs[1].ad = << >>
  /\ (procs[1].pc = "crypt" /\ procs[1].src = procs[1].src0) =>
       procs[1].s = asconStart(aead, StepNonce, procs[1].ad0)
  /\ (procs[1].pc = "done" /\ procs[1].op = "Seal") =>
       procs[1].out \o procs[1].tag = FreshSeal(StepNonce, procs[1].src0, procs[1].ad0)

SeparatorOnceWitness ==
  /\ procs[1].pc = "done"
  /\ procs[1].op = "Open"
  /\ procs[1].ad0 = << >>
  /\ Len(procs[1].src0) = 17
  /\ Cardinality(StepsNamed({"sep"})) = 1
  /\ Cardinality(StepsNamed({"msg"})) >= 2

(* the rest of the associated data, the byte 0x80 and zero bytes up to a   *)
(* block of r bytes                                                        *)
PaddedBlock(rest, r) == rest \o <<128>> \o Zeros(r - Len(rest) - 1)

(* the block XORed big-endian into the rate: x0, and x1 when r = 16 *)
XorRate(s, blk) ==
  IF Len(blk) = 16
  THEN [s EXCEPT !.x0 = XOR(@, BigEndianUint64(SubSeq(blk, 1, 8))),
                 !.x1 = XOR(@, BigEndianUint64(SubSeq(blk, 9, 16)))]
  ELSE [s EXCEPT !.x0 = XOR(@, BigEndianUint64(blk))]

(* P6 for ASCON-128, P8 for ASCON-128a *)
PermutedAD(s) == IF cipher = "ascon128" THEN p6Generic(s) ELSE p8Generic(s)

RateBytes == IF cipher = "ascon128" THEN 8 ELSE 16

(* C26: associated data of L bytes with rate r: L = 0 applies no           *)
(* permutation and changes the state only by x4 ^= 1; L > 0 applies        *)
(* L div r + 1 permutations, the last one after XORing the L mod r bytes   *)
(* left and the pad byte into the rate, so that a positive multiple of r   *)
(* absorbs one more block made of the pad byte only.                       *)
AbsorptionCount ==
  [][/\ (procs[1].pc = "ad" /\ procs'[1].pc = "sep") =>
          /\ Len(procs[1].ad) = Len(procs[1].ad0) % RateBytes
          /\ procs'[1].s = PermutedAD(XorRate(procs[1].s, PaddedBlock(procs[1].ad, RateBytes)))
          /\ procs'[1].nperm = (Len(procs[1].ad0) \div RateBytes) + 1
     /\ (procs[1].pc = "sep" /\ procs'[1].pc = "crypt") =>
          /\ procs'[1].s = asconStart(aead, StepNonce, procs[1].ad0)
          /\ procs'[1].nperm = IF Len(procs[1].ad0) = 0 THEN 0
                               ELSE (Len(procs[1].ad0) \div RateBytes) + 1
          /\ Len(procs[1].ad0) = 0 =>
               procs'[1].s = [procs[1].s0 EXCEPT !.x4 = XOR(@, {0})]]_vars

AbsorptionCountWitness ==
  /\ cipher = "ascon128a"
  /\ procs[1].pc = "crypt"
  /\ Len(procs[1].ad0) = 16
  /\ procs[1].nperm = 2
  /\ procs[1].ad = << >>

(* the bytes of the rate of s: x0, and x1 for ASCON-128a *)
RateOf(s) ==
  IF cipher = "ascon128" THEN BigEndianPutUint64(s.x0)
  ELSE BigEndianPutUint64(s.x0) \o BigEndianPutUint64(s.x1)

(* the rate after a last block of n bytes: the ciphertext bytes c, then    *)
(* the bytes the rate r0 had, with 0x80 XORed into the first of them       *)
RateAfterPartial(r0, c) ==
  c \o <<XorByte(r0[Len(c) + 1], 128)>> \o SubSeq(r0, Len(c) + 2, Len(r0))

(* C27: encrypt and decrypt leave the same state: when encrypt from s on m *)
(* yields c and the state s1, decrypt from s on c yields m and s1; in a    *)
(* last block of n bytes the top n bytes of the rate become the ciphertext *)
(* bytes, the other bytes of the rate keep their value, pad(n) is XORed    *)
(* in, and the words outside the rate are left alone.                      *)
CryptStatesAgree ==
  probe.fn = "crypt" =>
    /\ probe.out.m2 = probe.in.m
    /\ probe.out.s2 = probe.out.s1
    /\ Len(probe.out.c) = Len(probe.in.m)
    /\ probe.n < RateBytes =>
         /\ RateOf(probe.out.s1) = RateAfterPartial(RateOf(probe.in.s), probe.out.c)
         /\ probe.out.s1.x2 = probe.in.s.x2
         /\ probe.out.s1.x3 = probe.in.s.x3
         /\ probe.out.s1.x4 = probe.in.s.x4
         /\ cipher = "ascon128" => probe.out.s1.x1 = probe.in.s.x1

CryptStatesAgreeWitness ==
  /\ probe.fn = "crypt"
  /\ cipher = "ascon128a"
  /\ probe.n = 9
  /\ probe.out.c # probe.in.m
  /\ probe.out.m2 = probe.in.m
  /\ probe.out.s1 # probe.in.s

(* C28: the order of the pad and the write of the last block cannot be    *)
(* observed: in the last block of encrypt128 and in both branches of the   *)
(* last block of encrypt128a, XORing pad(n) into the rate word before the  *)
(* n ciphertext bytes are written and XORing it after give the same        *)
(* ciphertext bytes and the same state, for n from 0 to 7.                 *)
PadOrderUnobservable ==
  probe.fn = "padorder" =>
    /\ probe.out.first = probe.out.code
    /\ probe.out.last = probe.out.code

PadOrderUnobservableWitness ==
  /\ probe.fn = "padorder"
  /\ cipher = "ascon128a"
  /\ probe.n = 15
  /\ probe.out.last = probe.out.code
  /\ probe.out.code.c # probe.in.m
  /\ BigEndianPutUint64(probe.out.code.s.x1)[8] # probe.out.code.c[15]

(* C29: when two calls run on one instance with their steps interleaved  *)
(* in any order, each call returns what it returns when it runs alone,     *)
(* for each of the three ciphers.                                          *)
SharedInstanceSafe ==
  Len(insts) = 1 =>
    \A p \in Callers :
      procs[p].pc = "done" /\ procs[p].mixed => Outcome(procs[p]) = procs[p].alone

(* the same for the two ASCON ciphers only *)
SharedAsconSafe == cipher # "grain" => SharedInstanceSafe

(* C30: the amd64 accumulate routine is equivalent to accumulateGeneric: *)
(* for every acc, reg, ms and pt, and whatever the machine registers hold  *)
(* on entry, it leaves in s.acc and s.reg the values that                  *)
(* accumulateGeneric leaves.                                               *)
AsmAccumulateEquivalent ==
  probe.fn = "asm" => probe.out.asm = probe.out.generic

(* the routine agrees with accumulateGeneric when acctmp is 0 on entry,    *)
(* and the routine of the earlier generator always does                    *)
AsmEquivalentFromZero ==
  probe.fn = "asm" =>
    /\ probe.in.e.acctmp = {} => probe.out.asm = probe.out.generic
    /\ probe.out.asm.reg = probe.out.generic.reg
    /\ probe.out.asm.acc = XOR(probe.out.generic.acc, SHL(probe.in.e.acctmp, 48, 64))
    /\ probe.out.earlier = probe.out.generic

====
